---- MODULE Spec2Model ----
(***************************************************************************)
(* Coordination layer of the multi-instance iframe extractor:              *)
(*   anime_index/v.py   (checkpoint after every batch)                     *)
(*   anime_index/ser.py (episode-track version, GlobalProgress, failures)  *)
(*   allanime.py        (episode-list updater, coordination.json)          *)
(* Instances are asyncio tasks of one process: a step of the model is the  *)
(* code between two suspension points (an await that really suspends).     *)
(***************************************************************************)
EXTENDS Integers, Sequences, FiniteSets, TLC

\* ------------------------------------------------------------------ bounds
MaxInstances == 2      \* instances of the multi-instance scenarios
MaxFiles == 2          \* catalog files of the multi-instance scenarios
MaxSmallEps == 1       \* episodes per file in the multi-instance scenarios
MaxPending == 7        \* pending episodes of the large wave scenario
MaxCount == 2          \* the per-instance counters saturate here
MaxCrashes == 1        \* forced stops (kill and restart) per behaviour
MaxTabs == 3           \* tabs of the browser of the large wave scenario
MaxSmallPending == 3   \* pending episodes of the small wave scenarios
MaxAnime == 4          \* anime of the catalog file of the updater scenarios
MaxWorkAnime == 2      \* anime per file in the multi-instance updater scenarios
RecursionLimit == 2    \* nested calls Python allows (sys.getrecursionlimit())

\* ------------------------------------------------------- program constants
STALE_AFTER == 600     \* seconds after which a marker counts as stale
batch_size_ser == 5    \* ser.py's fixed batch size
SaveEvery == 3         \* allanime.py saves the file every 3 anime

\* --------------------------------------------------------------- universe
Null == "None"                    \* None or a missing key: falsy
NoUrl == 0                        \* an episode without 'url'; urls are 1, 2, ...
NoMarker == [holder |-> 0, age |-> -1]
NoFile == 0
NoTab == <<0, 0>>
NoData == [objs |-> <<>>, anime |-> <<>>]
RecursionError == "maximum recursion depth exceeded"
Corrupt == <<<<[url |-> -1, iframe_url |-> "truncated"]>>>>  \* a file that does not parse
TickSteps == {STALE_AFTER, STALE_AFTER + 1}  \* jumps of the wall clock

Min(S) == CHOOSE x \in S : \A y \in S : x <= y

Inc(n) == IF n < MaxCount THEN n + 1 ELSE n

RECURSIVE Flat(_)
Flat(s) == IF s = <<>> THEN <<>> ELSE Head(s) \o Flat(Tail(s))

Ep(u, r) == [url |-> u, iframe_url |-> r]

\* json.loads: every episode dict becomes an object, named by the position
\* it is loaded at; data['anime'][a]['episodes'] is a list of references.
Load(cat) ==
  [objs  |-> [id \in UNION {{<<a, e>> : e \in 1..Len(cat[a])} : a \in 1..Len(cat)}
                |-> cat[id[1]][id[2]]],
   anime |-> [a \in 1..Len(cat) |-> [e \in 1..Len(cat[a]) |-> <<a, e>>]]]

\* json.dumps: the referenced objects, in list order.
Dump(d) ==
  [a \in 1..Len(d.anime) |-> [e \in 1..Len(d.anime[a]) |-> d.objs[d.anime[a][e]]]]

\* (mutant) the filter on iframe_url is left out: every episode is gathered
all_pending_episodes_unfiltered(d) == Flat(d.anime)

\* (mutant) the filter tests 'url' instead of 'iframe_url'
all_pending_episodes_by_url(d) ==
  SelectSeq(Flat(d.anime), LAMBDA id : d.objs[id].url # NoUrl)

\* the episodes whose iframe_url is missing or None, in catalog order
all_pending_episodes(d) ==
  SelectSeq(Flat(d.anime), LAMBDA id : d.objs[id].iframe_url = Null)

PendingOf(cat) == all_pending_episodes(Load(cat))

\* ------------------------------------------------------------------ state
VARIABLES
  disk,        \* durable store: file -> catalog (list of anime, each a list of episodes)
  marker,      \* .coordination/<file>.lock: file -> NoMarker or [holder, age]
  conf,        \* the script that runs, its startup parameters, the collaborator,
               \* the deployment (instances as tasks of one process, or one
               \* process each), the I/O operations that may fail, and
               \* whether extractions are slow enough for a task without
               \* a tab to retry as often as Python allows calls to nest
  pc,          \* instance -> position of run_instance
  cur,         \* instance -> file_to_process
  data,        \* instance -> the loaded json of process_file
  pending,     \* instance -> all_pending_episodes / episodes_to_process
  off,         \* instance -> loop index i of the batch loop
  tasks,       \* instance -> the tasks of the batch in flight
  browsers,    \* instance -> self.browsers
  counts,      \* instance -> [processed_count, error_count, files_processed_count]
  gp,          \* GlobalProgress (ser.py)
  made,        \* instance -> the tabs init_browsers created
  progress,    \* instance -> current_file_progress (ser.py)
  failures,    \* failed_episodes.jsonl (ser.py), as a set of entries
  run,         \* history of the current / last process_file call of an instance
  stop,        \* history of the last forced stop
  crashes,     \* number of forced stops so far
  scan,        \* instance -> the scan of get_available_files in progress
  monitor,     \* progress_monitor (ser.py): "WATCHING", or "DONE" after its break
  updater      \* allanime.py: the catalog files, coordination.json and the
               \* worker instances of the updater

vars == <<disk, marker, conf, pc, cur, data, pending, off, tasks, browsers,
          counts, gp, made, progress, failures, run, stop, crashes, scan, monitor, updater>>

Inst == DOMAIN pc
Files == DOMAIN disk

NoRun == [file |-> NoFile, P |-> 0, W |-> 0, writes |-> 0, wave |-> 0,
          loaded |-> <<>>, resolved |-> {}, called |-> {}, tabs |-> 0,
          resume |-> FALSE, done |-> FALSE, failed |-> FALSE, faults |-> {},
          errors |-> 0, err0 |-> 0, completed0 |-> {}, waves |-> <<>>,
          ncalls |-> 0, proc0 |-> 0]
NoStop == [file |-> NoFile, resolved |-> {}, k |-> 0, M |-> 0, seen |-> FALSE]
ZeroCounts == [processed_count |-> 0, error_count |-> 0, files_processed_count |-> 0]
Idle == [file_name |-> NoFile, total_episodes |-> 0, processed |-> 0,
         skipped |-> 0, remaining |-> 0]
NoScan == [todo |-> {}, at |-> NoFile, available_files |-> {}, second |-> FALSE,
           over |-> FALSE]
\* allanime.py: what a json file holds, the catalog of a letter or the
\* coordination data; locked_files, a dict, is the set of its items
\* <<filename, instance>> (instance_status and start_time are not followed)
NoCoordination == [locked_files |-> {}, processed_anime |-> {}, failed_anime |-> {},
                   total_processed |-> 0]
CatalogDoc(list) == [keys |-> "catalog", anime |-> list, coordination |-> NoCoordination]
CoordinationDoc(c) == [keys |-> "coordination", anime |-> <<>>, coordination |-> c]
\* the argument of update_coordination_data: the keys it replaces, and
\* their new values
NoUpdates == [keys |-> {}, val |-> NoCoordination]
\* a worker_instance: its position, the locals of its process_file, and,
\* where the workers are processes, the update it is about to write and
\* what it does then
NoWorker == [pc |-> "IDLE", filename |-> NoFile, data |-> CatalogDoc(<<>>),
             anime |-> <<>>, i |-> 0, processed_in_file |-> 0, loaded |-> <<>>,
             saves |-> 0, raised |-> {}, updates |-> NoUpdates, then |-> "none"]
NoUpdater == [files |-> <<>>, coordination |-> NoCoordination, worker |-> <<>>]
NoProgress == [completed_files |-> {}, currently_processing |-> <<>>,
               total_files |-> 0, completed_episodes |-> 0]

\* ------------------------------------------------------- InstanceCoordinator
\* (mutant) a marker is stale from 600 on
Stale_at_600(m) == m # NoMarker /\ m.age >= STALE_AFTER

\* is_file_being_processed: a marker older than 600 is stale
Stale(m) == m # NoMarker /\ m.age > STALE_AFTER

is_file_being_processed(m) == m # NoMarker /\ ~Stale(m)

\* get_available_files: the files that are not being processed ...
get_available_files(mk) == {f \in DOMAIN mk : ~is_file_being_processed(mk[f])}

\* ... and its side effect: every stale marker it meets is removed
ScanMarkers(mk) == [f \in DOMAIN mk |-> IF Stale(mk[f]) THEN NoMarker ELSE mk[f]]

\* lock_file: (over)writes the marker; its mtime is the time of the write
lock_file(mk, f, i) == [mk EXCEPT ![f] = [holder |-> i, age |-> 0]]

\* (mutant) the marker is left where it is
unlock_file_kept(mk, f) == mk

\* unlock_file: removes the marker if there is one, whoever wrote it
unlock_file(mk, f) == [mk EXCEPT ![f] = NoMarker]

\* --------------------------------------------------------------- tab pool
\* init_browsers, for a run where nb browsers launched and browser b got
\* nt[b] tabs: tabs_available is the configured size whatever was created
NewBrowsers(nb, nt) ==
  [b \in 1..nb |-> [tabs_available |-> conf.max_tabs_per_browser,
                    tabs |-> [k \in 1..nt[b] |-> <<b, k>>]]]

FreeBrowsers(bs) ==
  {b \in 1..Len(bs) : bs[b].tabs_available > 0 /\ bs[b].tabs # <<>>}

\* (mutant) the tab is handed out but stays in the free list
get_available_tab_peek(bs) ==
  IF FreeBrowsers(bs) = {}
  THEN [tab |-> NoTab, browser |-> 0, browsers |-> bs]
  ELSE LET b == Min(FreeBrowsers(bs))
       IN [tab |-> Head(bs[b].tabs), browser |-> b,
           browsers |-> [bs EXCEPT ![b].tabs_available = @ - 1]]

\* get_available_tab: the first tab of the first browser that has one
get_available_tab(bs) ==
  IF FreeBrowsers(bs) = {}
  THEN [tab |-> NoTab, browser |-> 0, browsers |-> bs]
  ELSE LET b == Min(FreeBrowsers(bs))
       IN [tab |-> Head(bs[b].tabs), browser |-> b,
           browsers |-> [bs EXCEPT ![b] =
                           [tabs_available |-> @.tabs_available - 1,
                            tabs |-> Tail(@.tabs)]]]

\* (mutant) the counter is restored but the tab is not put back
release_tab_dropped(bs, tab, b) ==
  [bs EXCEPT ![b].tabs_available = @ + 1]

release_tab(bs, tab, b) ==
  [bs EXCEPT ![b] = [tabs_available |-> @.tabs_available + 1,
                     tabs |-> Append(@.tabs, tab)]]

\* ------------------------------------------------------------- catalogs
\* multi-instance scenarios: one anime of 1..MaxSmallEps episodes, each
\* pending or done
SmallCatalogs ==
  UNION {{<<[e \in 1..n |-> Ep(e, r[e])]>> : r \in [1..n -> {Null, "old"}]}
         : n \in 1..MaxSmallEps}

\* wave scenarios: P pending episodes spread over two anime, after one
\* episode that is already done
WaveCat(P) ==
  LET h == (P + 1) \div 2
  IN <<(<<Ep(100, "old")>> \o [e \in 1..h |-> Ep(e, Null)]),
       [e \in 1..(P - h) |-> Ep(h + e, Null)]>>

\* --------------------------------------------------------------- process
\* main(): the pre-scan counts the pending episodes of the available files
\* (a file that does not parse is logged and counts nothing);
\* v.py runs no instance when there is no file or nothing pending
RECURSIVE SumPending(_, _)
SumPending(dk, S) ==
  IF S = {} THEN 0
  ELSE LET f == CHOOSE x \in S : TRUE
       IN (IF dk[f] = Corrupt THEN 0 ELSE Len(PendingOf(dk[f])))
          + SumPending(dk, S \ {f})

get_total_pending_episodes(dk, mk) == SumPending(dk, get_available_files(mk))

MainStartsV(dk, mk) ==
  get_available_files(mk) # {} /\ get_total_pending_episodes(dk, mk) > 0

batch_size_v == conf.max_browsers * conf.max_tabs_per_browser

NewTasks(ids) ==
  [k \in 1..Len(ids) |-> [ep |-> ids[k], st |-> "created", tab |-> NoTab,
                          browser |-> 0, res |-> Null, depth |-> 0]]

\* (mutant) the slice runs one entry too far
Batch_overlapping(p, i, size) ==
  SubSeq(p, i + 1, IF i + size + 1 < Len(p) THEN i + size + 1 ELSE Len(p))

\* all_pending_episodes[i:i + batch_size]
Batch(p, i, size) == SubSeq(p, i + 1, IF i + size < Len(p) THEN i + size ELSE Len(p))

Instances(n) ==
  /\ pc = [i \in 1..n |-> "STARTING"]
  /\ cur = [i \in 1..n |-> NoFile]
  /\ data = [i \in 1..n |-> NoData]
  /\ pending = [i \in 1..n |-> <<>>]
  /\ off = [i \in 1..n |-> 0]
  /\ tasks = [i \in 1..n |-> <<>>]
  /\ browsers = [i \in 1..n |-> <<>>]
  /\ counts = [i \in 1..n |-> ZeroCounts]
  /\ made = [i \in 1..n |-> {}]
  /\ progress = [i \in 1..n |-> Idle]
  /\ run = [i \in 1..n |-> NoRun]
  /\ failures = {}
  /\ stop = [i \in 1..n |-> NoStop]
  /\ crashes = 0
  /\ scan = [i \in 1..n |-> NoScan]
  /\ monitor = "WATCHING"

Fresh(n) == Instances(n) /\ updater = NoUpdater

\* init_browsers: a browser that fails to launch is left out, a tab that
\* fails to open is left out of its browser's list
InitBrowsers(i) ==
  /\ pc[i] = "STARTING"
  /\ \E nb \in 0..conf.max_browsers :
       \E nt \in [1..nb -> 0..conf.max_tabs_per_browser] :
         /\ browsers' = [browsers EXCEPT ![i] = NewBrowsers(nb, nt)]
         /\ made' = [made EXCEPT ![i] =
                       UNION {{<<b, k>> : k \in 1..nt[b]} : b \in 1..nb}]
  /\ pc' = [pc EXCEPT ![i] = "SCANNING"]
  /\ UNCHANGED <<scan, disk, marker, conf, monitor, updater, cur, data, pending, off, tasks, counts,
                 gp, progress, failures, run, stop, crashes>>

\* the ids of the episodes of a catalog that have a result
DoneIds(cat) ==
  {id \in DOMAIN Load(cat).objs : Load(cat).objs[id].iframe_url # Null}

AddSat(n, k) == IF n + k < MaxCount THEN n + k ELSE MaxCount

Ceil(p, w) == (p + w - 1) \div w

StartRun(i, f, cat, p, w) ==
  [NoRun EXCEPT !.file = f, !.P = Len(p), !.W = w, !.loaded = cat,
                !.wave = IF p = <<>> THEN 0 ELSE 1,
                !.resume = (stop[i].file = f /\ ~stop[i].seen),
                !.faults = run[i].faults,
                !.err0 = counts[i].error_count,
                !.proc0 = counts[i].processed_count,
                !.completed0 = gp.completed_files,
                !.waves = IF p = <<>> THEN <<>> ELSE <<Batch(p, 0, w)>>]

\* a call of process_file that ends in its except clause
FailedRun(i, f, kinds) ==
  [run[i] EXCEPT !.file = f, !.failed = TRUE, !.faults = @ \cup kinds]

\* an I/O operation of a kind that may fail succeeds or not
IoOk(kind) == IF kind \in conf.faults THEN {TRUE, FALSE} ELSE {TRUE}

FaultOf(kind, ok) == IF ok THEN {} ELSE {kind}

\* ---------------------------------------------------- run_instance (v.py)
Stales(mk) == {f \in DOMAIN mk : Stale(mk[f])}

\* the markers after the stale markers of the files in S are removed
RemoveStale(mk, S) == [f \in DOMAIN mk |-> IF f \in S THEN NoMarker ELSE mk[f]]

\* the sets of stale markers whose removal may fail during one scan
FailingRemovals(mk) == IF "stale" \in conf.faults THEN SUBSET Stales(mk) ELSE {{}}

\* one pass of the while loop up to the first suspension inside process_file:
\* scan, random.choice, lock_file; a stale marker that cannot be removed is
\* passed over, a marker that cannot be written is logged
VClaim(i, empty) ==
  LET avail == get_available_files(marker)
  IN \E R \in FailingRemovals(marker) :
       LET mk == RemoveStale(marker, Stales(marker) \ R)
       IN /\ scan' = [scan EXCEPT ![i] = [NoScan EXCEPT !.available_files = avail,
                                                     !.second = (empty = "TERMINATED")]]
          /\ IF avail = {}
             THEN /\ pc' = [pc EXCEPT ![i] = empty]
                  /\ marker' = mk
                  /\ cur' = cur
                  /\ run' = [run EXCEPT ![i] = NoRun]
             ELSE \E f \in avail : \E ok \in IoOk("lock") :
                    /\ marker' = IF ok THEN lock_file(mk, f, i) ELSE mk
                    /\ cur' = [cur EXCEPT ![i] = f]
                    /\ pc' = [pc EXCEPT ![i] = "LOADING"]
                    /\ run' = [run EXCEPT ![i] =
                                 [NoRun EXCEPT !.faults = FaultOf("stale", R = {})
                                                          \cup FaultOf("lock", ok)]]

\* (mutant) the loop ends at the first empty scan
VScan_once(i) ==
  /\ conf.script = "v"
  /\ conf.deploy = "tasks"
  /\ pc[i] \in {"SCANNING", "IDLE_WAIT"}
  /\ VClaim(i, "TERMINATED")
  /\ UNCHANGED <<disk, conf, monitor, updater, data, pending, off, tasks, browsers, counts,
                 gp, made, progress, failures, stop, crashes>>

\* a scan of the while loop: the first one of a pass, or the second one
\* after the sleep of 30, where an empty result ends the loop
VScan(i) ==
  /\ conf.script = "v"
  /\ conf.deploy = "tasks"
  /\ \/ pc[i] = "SCANNING" /\ VClaim(i, "IDLE_WAIT")
     \/ pc[i] = "IDLE_WAIT" /\ VClaim(i, "TERMINATED")
  /\ UNCHANGED <<disk, conf, monitor, updater, data, pending, off, tasks, browsers, counts,
                 gp, made, progress, failures, stop, crashes>>

\* the markers an unlock_file of instance i may fail to remove
UnlockOutcomes(i) == IF marker[cur[i]] = NoMarker THEN {TRUE} ELSE IoOk("unlock")

\* process_file returns: the finally clause unlocks, the locals are gone;
\* v.py logs a marker it cannot remove, ser.py lets the error escape to
\* run_instance, whose except clause ends the loop.  Where the instances
\* are processes, the system calls of unlock_file are steps of their own
Return(i, ok, to) ==
  /\ IF conf.deploy = "tasks"
     THEN /\ marker' = IF ok THEN unlock_file(marker, cur[i]) ELSE marker
          /\ pc' = [pc EXCEPT ![i] = IF ~ok /\ conf.script = "ser" THEN "ABORTED" ELSE to]
          /\ cur' = [cur EXCEPT ![i] = NoFile]
     ELSE /\ marker' = marker
          /\ pc' = [pc EXCEPT ![i] = IF to = "SCANNING" THEN "UNLOCKING" ELSE to]
          /\ cur' = cur
  /\ data' = [data EXCEPT ![i] = NoData]
  /\ pending' = [pending EXCEPT ![i] = <<>>]
  /\ off' = [off EXCEPT ![i] = 0]
  /\ tasks' = [tasks EXCEPT ![i] = <<>>]

\* (mutant) no except clause: the exception leaves process_file and ends
\* the loop of run_instance
Except_uncaught(i, ok) == Return(i, ok, "ABORTED")

\* except Exception in process_file: the error is logged, process_file
\* returns False and run_instance goes on with its loop
Except(i, ok) == Return(i, ok, "SCANNING")

\* process_file (v.py): the file is read, the pending episodes gathered;
\* nothing pending returns at once, else the first batch is dispatched; a
\* file that cannot be read or parsed ends the call in the except clause
VLoad(i) ==
  /\ conf.script = "v"
  /\ pc[i] = "LOADING"
  /\ LET f == cur[i]
         d == Load(disk[f])
         p == all_pending_episodes(d)
     IN /\ stop' = [stop EXCEPT ![i].seen = @ \/ stop[i].file = f]
        /\ \E rd \in IoOk("read") :
             IF ~rd \/ disk[f] = Corrupt
             THEN \E ok \in UnlockOutcomes(i) :
                    /\ Except(i, ok)
                    /\ counts' = counts
                    /\ run' = [run EXCEPT ![i] =
                                 FailedRun(i, f, {"read"} \cup FaultOf("unlock", ok))]
             ELSE IF p = <<>>
             THEN \E ok \in UnlockOutcomes(i) :
                    /\ Return(i, ok, "SCANNING")
                    /\ counts' = [counts EXCEPT ![i].files_processed_count = Inc(@)]
                    /\ run' = [run EXCEPT ![i] =
                                 [StartRun(i, f, disk[f], p, batch_size_v) EXCEPT
                                    !.done = TRUE, !.faults = @ \cup FaultOf("unlock", ok)]]
             ELSE /\ data' = [data EXCEPT ![i] = d]
                  /\ pending' = [pending EXCEPT ![i] = p]
                  /\ off' = [off EXCEPT ![i] = 0]
                  /\ tasks' = [tasks EXCEPT ![i] = NewTasks(Batch(p, 0, batch_size_v))]
                  /\ pc' = [pc EXCEPT ![i] = "WAVE"]
                  /\ run' = [run EXCEPT ![i] = StartRun(i, f, disk[f], p, batch_size_v)]
                  /\ UNCHANGED <<marker, cur, counts>>
  /\ UNCHANGED <<scan, disk, conf, monitor, updater, browsers, gp, made, progress, failures, crashes>>

\* --------------------------------------------------- process_single_episode
\* ser.py retries by recursion
Recursing == conf.script = "ser" /\ conf.slow

\* ser.py, no tab: sleep(1), then process_single_episode calls itself; the
\* call that would nest deeper than Python allows raises RecursionError,
\* which ends the task
Deeper(t) ==
  IF t.depth + 1 >= RecursionLimit
  THEN [t EXCEPT !.st = "done", !.res = RecursionError]
  ELSE [t EXCEPT !.st = "waiting", !.depth = @ + 1]

\* (mutant) an episode without url returns before the try: its tab stays
\* checked out
Acquire_leaking(i, k) ==
  LET g == get_available_tab(browsers[i])
      t == tasks[i][k]
  IN IF g.tab = NoTab
     THEN /\ tasks' = [tasks EXCEPT ![i][k] =
                         IF Recursing THEN Deeper(t)
                         ELSE [t EXCEPT !.st = "waiting"]]
          /\ UNCHANGED <<scan, browsers, run>>
     ELSE IF data[i].objs[t.ep].url = NoUrl
     THEN /\ browsers' = [browsers EXCEPT ![i] = g.browsers]
          /\ tasks' = [tasks EXCEPT ![i][k].st = "done", ![i][k].res = Null]
          /\ run' = [run EXCEPT ![i].tabs = Inc(@)]
     ELSE /\ browsers' = [browsers EXCEPT ![i] = g.browsers]
          /\ tasks' = [tasks EXCEPT ![i][k] =
                         [@ EXCEPT !.st = "extracting", !.tab = g.tab, !.browser = g.browser]]
          /\ run' = [run EXCEPT ![i].called = @ \cup {t.ep}, ![i].tabs = Inc(@),
                                ![i].ncalls = @ + 1]

\* get_available_tab, then either no url (the tab goes straight back) or
\* the extraction starts and the task suspends holding the tab; without a
\* tab v.py stays in the loop of get_available_tab
Acquire(i, k) ==
  LET g == get_available_tab(browsers[i])
      t == tasks[i][k]
  IN IF g.tab = NoTab
     THEN /\ tasks' = [tasks EXCEPT ![i][k] =
                         IF Recursing THEN Deeper(t)
                         ELSE [t EXCEPT !.st = "waiting"]]
          /\ UNCHANGED <<scan, browsers, run>>
     ELSE IF data[i].objs[t.ep].url = NoUrl
     THEN /\ browsers' = [browsers EXCEPT ![i] = release_tab(g.browsers, g.tab, g.browser)]
          /\ tasks' = [tasks EXCEPT ![i][k].st = "done", ![i][k].res = Null]
          /\ run' = [run EXCEPT ![i].tabs = Inc(@)]
     ELSE /\ browsers' = [browsers EXCEPT ![i] = g.browsers]
          /\ tasks' = [tasks EXCEPT ![i][k] =
                         [@ EXCEPT !.st = "extracting", !.tab = g.tab, !.browser = g.browser]]
          /\ run' = [run EXCEPT ![i].called = @ \cup {t.ep}, ![i].tabs = Inc(@),
                                ![i].ncalls = @ + 1]

\* a new task runs to its first suspension, in the order of creation; a
\* task that found no tab sleeps and tries again (a try that finds no tab
\* changes nothing in v.py, and in ser.py nothing but the depth of the
\* calls, which is followed where extractions are slow)
TaskAcquire(i, k) ==
  /\ pc[i] = "WAVE"
  /\ \/ /\ tasks[i][k].st = "created"
        /\ \A j \in 1..(k - 1) : tasks[i][j].st # "created"
     \/ /\ tasks[i][k].st = "waiting"
        /\ Recursing \/ get_available_tab(browsers[i]).tab # NoTab
  /\ Acquire(i, k)
  /\ UNCHANGED <<scan, disk, marker, conf, monitor, updater, pc, cur, data, pending, off, counts,
                 gp, made, progress, failures, stop, crashes>>

\* (mutant) a task whose extraction returned None gives its tab back and
\* tries again
TaskExtract_retrying(i, k) ==
  /\ pc[i] = "WAVE"
  /\ tasks[i][k].st = "extracting"
  /\ \E r \in conf.outcomes :
       tasks' = [tasks EXCEPT ![i][k] =
                   [@ EXCEPT !.st = IF r = Null THEN "waiting" ELSE "done",
                             !.res = r, !.tab = NoTab, !.browser = 0]]
  /\ browsers' = [browsers EXCEPT ![i] =
                    release_tab(@, tasks[i][k].tab, tasks[i][k].browser)]
  /\ UNCHANGED <<scan, disk, marker, conf, monitor, updater, pc, cur, data, pending, off, counts,
                 gp, made, progress, failures, run, stop, crashes>>

\* extract_iframe_url returns a url or None; the finally clause releases
\* the tab (the sleep that follows changes nothing)
TaskExtract(i, k) ==
  /\ pc[i] = "WAVE"
  /\ tasks[i][k].st = "extracting"
  /\ \E r \in conf.outcomes :
       tasks' = [tasks EXCEPT ![i][k] =
                   [@ EXCEPT !.st = "done", !.res = r, !.tab = NoTab, !.browser = 0]]
  /\ browsers' = [browsers EXCEPT ![i] =
                    release_tab(@, tasks[i][k].tab, tasks[i][k].browser)]
  /\ UNCHANGED <<scan, disk, marker, conf, monitor, updater, pc, cur, data, pending, off, counts,
                 gp, made, progress, failures, run, stop, crashes>>

\* ------------------------------------------------- process_episode_batch
\* isinstance(result, Exception)
IsException(r) == r = RecursionError

AllDone(ts) == \A k \in 1..Len(ts) : ts[k].st = "done"

\* the result of the task of an episode of the batch
ResultOf(ts, id) == ts[CHOOSE k \in 1..Len(ts) : ts[k].ep = id].res

InBatch(ts) == {ts[k].ep : k \in 1..Len(ts)}

\* episode['iframe_url'] = result, in place, for every episode of the batch
\* (an exception leaves None)
WithResults(d, ts) ==
  [d EXCEPT !.objs = [id \in DOMAIN d.objs |->
                        IF id \in InBatch(ts)
                        THEN [d.objs[id] EXCEPT !.iframe_url =
                                IF IsException(ResultOf(ts, id)) THEN Null
                                ELSE ResultOf(ts, id)]
                        ELSE d.objs[id]]]

Succeeded(ts) == {k \in 1..Len(ts) : ts[k].res # Null /\ ~IsException(ts[k].res)}

\* (mutant) a result of None is not counted
Counted_successes_only(c, ts) ==
  [c EXCEPT !.processed_count = AddSat(@, Cardinality(Succeeded(ts)))]

Counted(c, ts) ==
  [c EXCEPT !.processed_count = AddSat(@, Cardinality(Succeeded(ts))),
            !.error_count = AddSat(@, Len(ts) - Cardinality(Succeeded(ts)))]

\* gather returns when every task of the batch is done: the results are
\* written into the episodes and counted, and the file is opened for writing
VBarrier(i) ==
  /\ conf.script = "v"
  /\ pc[i] = "WAVE"
  /\ AllDone(tasks[i])
  /\ data' = [data EXCEPT ![i] = WithResults(@, tasks[i])]
  /\ counts' = [counts EXCEPT ![i] = Counted(@, tasks[i])]
  /\ run' = [run EXCEPT ![i].resolved =
               @ \cup {<<tasks[i][k].ep, run[i].wave>> : k \in Succeeded(tasks[i])},
                        ![i].errors = @ + Len(tasks[i]) - Cardinality(Succeeded(tasks[i]))]
  /\ tasks' = [tasks EXCEPT ![i] = <<>>]
  /\ pc' = [pc EXCEPT ![i] = "SAVING"]
  /\ UNCHANGED <<scan, disk, marker, conf, monitor, updater, cur, pending, off, browsers, gp, made, progress,
                 failures, stop, crashes>>

\* (mutant) the write is lost
write_file_lost(dk, f, d) == dk

\* open(file_path, 'w') and write(json.dumps(data))
write_file(dk, f, d) == [dk EXCEPT ![f] = Dump(d)]

\* (mutant) the loop is left after its first batch
MoreBatches_never(i) == FALSE

\* the batch loop, range(0, len(all_pending_episodes), batch_size), goes on
MoreBatches(i) == off[i] + batch_size_v < Len(pending[i])

\* what a write that fails leaves of the file: open(file_path, 'w') failed and
\* the file is as it was, or the file was truncated and is not json any more
FailedWrites(dk, f) == {dk, [dk EXCEPT ![f] = Corrupt]}

\* the checkpoint: the whole json goes to the file; then the next batch is
\* dispatched, or the file is finished, counted and unlocked; a write that
\* fails ends the call in the except clause
VSave(i) ==
  /\ conf.script = "v"
  /\ pc[i] = "SAVING"
  /\ \E wr \in IoOk("write") :
       IF ~wr
       THEN \E ok \in UnlockOutcomes(i) :
              /\ disk' \in FailedWrites(disk, cur[i])
              /\ Except(i, ok)
              /\ counts' = counts
              /\ run' = [run EXCEPT ![i] =
                           FailedRun(i, cur[i], {"write"} \cup FaultOf("unlock", ok))]
       ELSE /\ disk' = write_file(disk, cur[i], data[i])
            /\ IF MoreBatches(i)
               THEN /\ off' = [off EXCEPT ![i] = @ + batch_size_v]
                    /\ tasks' = [tasks EXCEPT ![i] =
                                   NewTasks(Batch(pending[i], off[i] + batch_size_v, batch_size_v))]
                    /\ pc' = [pc EXCEPT ![i] = "WAVE"]
                    /\ run' = [run EXCEPT ![i].writes = @ + 1, ![i].wave = @ + 1,
                                          ![i].waves = Append(@,
                                             Batch(pending[i], off[i] + batch_size_v, batch_size_v))]
                    /\ UNCHANGED <<marker, cur, data, pending, counts>>
               ELSE \E ok \in UnlockOutcomes(i) :
                      /\ Return(i, ok, "SCANNING")
                      /\ counts' = [counts EXCEPT ![i].files_processed_count = Inc(@)]
                      /\ run' = [run EXCEPT ![i].writes = @ + 1, ![i].done = TRUE,
                                            ![i].faults = @ \cup FaultOf("unlock", ok)]
  /\ UNCHANGED <<scan, conf, monitor, updater, browsers, gp, made, progress, failures, stop, crashes>>

\* --------------------------------------------------- GlobalProgress (ser.py)
\* GlobalProgress is an object of one process: it is followed where the
\* instances are the tasks of one process
Tracked(g) == IF conf.deploy = "tasks" THEN g ELSE gp

mark_file_started(g, f, i) == [g EXCEPT !.currently_processing[f] = i]

mark_file_completed_not(g, f) == [g EXCEPT !.currently_processing[f] = 0]

mark_file_completed(g, f) ==
  [g EXCEPT !.completed_files = @ \cup {f}, !.currently_processing[f] = 0]

\* (mutant) the sum is written from a value read before the increment of
\* another task
increment_completed_episodes_lost(g, n) ==
  [g EXCEPT !.completed_episodes = IF @ > 0 THEN @ ELSE AddSat(@, n)]

increment_completed_episodes(g, n) == [g EXCEPT !.completed_episodes = AddSat(@, n)]

get_status(g) ==
  LET processing == {f \in DOMAIN g.currently_processing : g.currently_processing[f] # 0}
  IN [completed |-> Cardinality(g.completed_files),
      processing |-> processing,
      total |-> g.total_files,
      remaining |-> g.total_files - Cardinality(g.completed_files) - Cardinality(processing)]

\* main() of ser.py: the pre-scan fills the totals
Prescan(dk, mk) ==
  LET avail == get_available_files(mk)
      done == UNION {{<<f, id>> : id \in DoneIds(dk[f])} :
                       f \in {g \in avail : dk[g] # Corrupt}}
  IN [completed_files |-> {},
      currently_processing |-> [f \in DOMAIN dk |-> 0],
      total_files |-> Cardinality(avail),
      completed_episodes |-> AddSat(0, Cardinality(done))]

\* progress_monitor: some instance's current_file_progress names a file
found_processing == \E i \in Inst : progress[i].file_name # NoFile

\* progress_monitor: a report tick, every 2 minutes; the monitor leaves its
\* loop when no file remains and no instance reports a file
MonitorTick ==
  /\ conf.script = "ser"
  /\ conf.deploy = "tasks"
  /\ monitor = "WATCHING"
  /\ get_status(gp).remaining = 0
  /\ ~found_processing
  /\ monitor' = "DONE"
  /\ UNCHANGED <<scan, disk, marker, conf, updater, pc, cur, data, pending, off, tasks,
                 browsers, counts, gp, made, progress, failures, run, stop, crashes>>

\* --------------------------------------------------- run_instance (ser.py)
\* scan, random.choice, then process_file up to its first suspension:
\* current_file, mark_file_started, lock_file.  A stale marker that cannot
\* be removed raises out of the scan, into the except clause of
\* run_instance; a marker that cannot be written raises into the except
\* clause of process_file, which marks the file completed and returns
SerClaim(i, empty) ==
  LET avail == get_available_files(marker)
      mk == ScanMarkers(marker)
  IN \/ /\ avail = {}
        /\ pc' = [pc EXCEPT ![i] = empty]
        /\ marker' = mk
        /\ scan' = [scan EXCEPT ![i] = [NoScan EXCEPT !.available_files = avail,
                                                     !.second = (empty = "TERMINATED")]]
        /\ run' = [run EXCEPT ![i] = NoRun]
        /\ UNCHANGED <<cur, gp>>
     \/ \E f \in avail : \E ok \in IoOk("lock") :
          /\ scan' = [scan EXCEPT ![i] = [NoScan EXCEPT !.available_files = avail,
                                                     !.second = (empty = "TERMINATED")]]
          /\ cur' = [cur EXCEPT ![i] = IF ok THEN f ELSE NoFile]
          /\ IF ok
             THEN /\ gp' = mark_file_started(gp, f, i)
                  /\ marker' = lock_file(mk, f, i)
                  /\ pc' = [pc EXCEPT ![i] = "LOADING"]
                  /\ run' = [run EXCEPT ![i] = NoRun]
             ELSE /\ gp' = mark_file_completed(mark_file_started(gp, f, i), f)
                  /\ marker' = mk
                  /\ pc' = [pc EXCEPT ![i] = "SCANNING"]
                  /\ run' = [run EXCEPT ![i] =
                               [NoRun EXCEPT !.file = f, !.failed = TRUE, !.faults = {"lock"}]]
     \/ /\ "stale" \in conf.faults
        /\ \E g \in Stales(marker) : \E B \in SUBSET (Stales(marker) \ {g}) :
             marker' = RemoveStale(marker, B)
        /\ pc' = [pc EXCEPT ![i] = "ABORTED"]
        /\ run' = [run EXCEPT ![i] = [NoRun EXCEPT !.faults = {"stale"}]]
        /\ UNCHANGED <<scan, cur, gp>>

SerScan(i) ==
  /\ conf.script = "ser"
  /\ conf.deploy = "tasks"
  /\ \/ pc[i] = "SCANNING" /\ SerClaim(i, "IDLE_WAIT")
     \/ pc[i] = "IDLE_WAIT" /\ SerClaim(i, "TERMINATED")
  /\ UNCHANGED <<disk, conf, monitor, updater, data, pending, off, tasks, browsers, counts,
                 made, progress, failures, stop, crashes>>

\* process_file (ser.py): the file is read, the episodes counted and the
\* pending ones gathered; the first batch of 5 is dispatched, or, with
\* nothing to do, the file is opened for the final write; a file that
\* cannot be read or parsed ends the call in the except clause
SerLoad(i) ==
  /\ conf.script = "ser"
  /\ pc[i] = "LOADING"
  /\ LET f == cur[i]
         d == Load(disk[f])
         p == all_pending_episodes(d)
     IN /\ stop' = [stop EXCEPT ![i].seen = @ \/ stop[i].file = f]
        /\ \E rd \in IoOk("read") :
             IF ~rd \/ disk[f] = Corrupt
             THEN \E ok \in UnlockOutcomes(i) :
                    /\ Except(i, ok)
                    /\ gp' = Tracked(mark_file_completed(gp, f))
                    /\ progress' = [progress EXCEPT ![i].file_name = NoFile]
                    /\ run' = [run EXCEPT ![i] =
                                 FailedRun(i, f, {"read"} \cup FaultOf("unlock", ok))]
             ELSE /\ data' = [data EXCEPT ![i] = d]
                  /\ pending' = [pending EXCEPT ![i] = p]
                  /\ off' = [off EXCEPT ![i] = 0]
                  /\ progress' = [progress EXCEPT ![i] =
                                    [file_name |-> f,
                                     total_episodes |-> Cardinality(DOMAIN d.objs),
                                     processed |-> 0,
                                     skipped |-> Cardinality(DOMAIN d.objs) - Len(p),
                                     remaining |-> Len(p)]]
                  /\ run' = [run EXCEPT ![i] = StartRun(i, f, disk[f], p, batch_size_ser)]
                  /\ tasks' = [tasks EXCEPT ![i] = NewTasks(Batch(p, 0, batch_size_ser))]
                  /\ pc' = [pc EXCEPT ![i] = IF p = <<>> THEN "SAVING" ELSE "WAVE"]
                  /\ UNCHANGED <<marker, cur, gp>>
  /\ UNCHANGED <<scan, disk, conf, monitor, updater, browsers, counts, made, failures, crashes>>

\* "Update the episodes in the data": in every anime the first episode with
\* the url of the updated episode is replaced by the updated episode
ReplaceFirst(list, objs, id) ==
  LET js == {j \in 1..Len(list) : objs[list[j]].url = objs[id].url}
  IN IF js = {} THEN list ELSE [list EXCEPT ![Min(js)] = id]

RECURSIVE UpdateEpisodes(_, _, _)
UpdateEpisodes(anime, objs, ids) ==
  IF ids = <<>> THEN anime
  ELSE UpdateEpisodes([a \in 1..Len(anime) |-> ReplaceFirst(anime[a], objs, Head(ids))],
                      objs, Tail(ids))

FailuresOf_raised(d, ts) ==
  {[episode |-> d.objs[ts[k].ep], reason |-> ts[k].res] :
     k \in {j \in 1..Len(ts) : IsException(ts[j].res)}}

\* log_failure for every episode of the batch that has no result
FailuresOf(d, ts) ==
  {[episode |-> d.objs[ts[k].ep],
    reason |-> IF IsException(ts[k].res) THEN ts[k].res
               ELSE "No iframe found (None result)"] :
     k \in (1..Len(ts)) \ Succeeded(ts)}

\* gather returns: results, counters, failure log and progress are updated,
\* the episodes are put back by url; then the next batch is dispatched or
\* the file is opened for the final write
SerBarrier(i) ==
  /\ conf.script = "ser"
  /\ pc[i] = "WAVE"
  /\ AllDone(tasks[i])
  /\ LET d == WithResults(data[i], tasks[i])
         ok == Cardinality(Succeeded(tasks[i]))
         more == off[i] + batch_size_ser < Len(pending[i])
     IN /\ data' = [data EXCEPT ![i] =
                      [d EXCEPT !.anime = UpdateEpisodes(@, d.objs, Batch(pending[i], off[i], batch_size_ser))]]
        /\ counts' = [counts EXCEPT ![i] = Counted(@, tasks[i])]
        /\ failures' = failures \cup FailuresOf(d, tasks[i])
        /\ gp' = Tracked(increment_completed_episodes(gp, ok))
        /\ progress' = [progress EXCEPT ![i].processed = @ + ok,
                                        ![i].remaining = @ - Len(tasks[i])]
        /\ run' = [run EXCEPT ![i].resolved =
                     @ \cup {<<tasks[i][k].ep, run[i].wave>> : k \in Succeeded(tasks[i])},
                              ![i].wave = IF more THEN @ + 1 ELSE @,
                              ![i].waves = IF more
                                           THEN Append(@, Batch(pending[i], off[i] + batch_size_ser, batch_size_ser))
                                           ELSE @,
                              ![i].errors = @ + Len(tasks[i]) - ok]
        /\ off' = [off EXCEPT ![i] = @ + batch_size_ser]
        /\ tasks' = [tasks EXCEPT ![i] =
                       IF more THEN NewTasks(Batch(pending[i], off[i] + batch_size_ser, batch_size_ser))
                       ELSE <<>>]
        /\ pc' = [pc EXCEPT ![i] = IF more THEN "WAVE" ELSE "SAVING"]
  /\ UNCHANGED <<scan, disk, marker, conf, monitor, updater, cur, pending, browsers, made, stop, crashes>>

\* the only write of ser.py's process_file, after the last batch; the file
\* is marked completed and unlocked; a write that fails ends the call in the
\* except clause, which marks the file completed as well
SerSave(i) ==
  /\ conf.script = "ser"
  /\ pc[i] = "SAVING"
  /\ gp' = Tracked(mark_file_completed(gp, cur[i]))
  /\ progress' = [progress EXCEPT ![i].file_name = NoFile]
  /\ \E wr \in IoOk("write") : \E ok \in UnlockOutcomes(i) :
       /\ IF wr THEN Return(i, ok, "SCANNING") ELSE Except(i, ok)
       /\ IF wr
          THEN /\ disk' = write_file(disk, cur[i], data[i])
               /\ run' = [run EXCEPT ![i].writes = @ + 1, ![i].done = TRUE,
                                     ![i].faults = @ \cup FaultOf("unlock", ok)]
          ELSE /\ disk' \in FailedWrites(disk, cur[i])
               /\ run' = [run EXCEPT ![i] =
                            FailedRun(i, cur[i], {"write"} \cup FaultOf("unlock", ok))]
  /\ UNCHANGED <<scan, conf, monitor, updater, browsers, counts, made, failures, stop, crashes>>

\* ------------------------------------------- instances as processes
\* Where every instance is a process of its own, the processes interleave
\* at the system calls on the marker files.

\* os.listdir: the scan begins
XList(i) ==
  /\ conf.deploy = "processes"
  /\ pc[i] \in {"SCANNING", "IDLE_WAIT"}
  /\ scan' = [scan EXCEPT ![i] = [NoScan EXCEPT !.todo = Files,
                                                !.second = (pc[i] = "IDLE_WAIT")]]
  /\ pc' = [pc EXCEPT ![i] = "SCAN"]
  /\ run' = [run EXCEPT ![i] = NoRun]
  /\ UNCHANGED <<disk, marker, conf, monitor, updater, cur, data, pending, off, tasks, browsers,
                 counts, gp, made, progress, failures, stop, crashes>>

\* is_file_being_processed, os.path.exists: no marker, the file is available
XExists(i) ==
  /\ conf.deploy = "processes"
  /\ pc[i] = "SCAN"
  /\ \E f \in scan[i].todo :
       IF marker[f] = NoMarker
       THEN /\ scan' = [scan EXCEPT ![i].todo = @ \ {f},
                                    ![i].available_files = @ \cup {f}]
            /\ pc' = pc
       ELSE /\ scan' = [scan EXCEPT ![i].at = f]
            /\ pc' = [pc EXCEPT ![i] = "SCAN_STAT"]
  /\ UNCHANGED <<disk, marker, conf, monitor, updater, cur, data, pending, off, tasks, browsers,
                 counts, gp, made, progress, failures, run, stop, crashes>>

\* is_file_being_processed, os.path.getmtime: a marker that is gone by now
\* raises FileNotFoundError, which nothing catches before run_instance; a
\* marker of 600 or less keeps the file locked
XStat(i) ==
  /\ conf.deploy = "processes"
  /\ pc[i] = "SCAN_STAT"
  /\ LET f == scan[i].at
     IN IF marker[f] = NoMarker
        THEN /\ pc' = [pc EXCEPT ![i] = "ABORTED"]
             /\ scan' = [scan EXCEPT ![i] = NoScan]
             /\ run' = [run EXCEPT ![i].faults = @ \cup {"getmtime"}]
        ELSE /\ pc' = [pc EXCEPT ![i] = IF Stale(marker[f]) THEN "SCAN_REMOVE" ELSE "SCAN"]
             /\ scan' = IF Stale(marker[f]) THEN scan
                        ELSE [scan EXCEPT ![i].todo = @ \ {f}, ![i].at = NoFile]
             /\ run' = run
  /\ UNCHANGED <<disk, marker, conf, monitor, updater, cur, data, pending, off, tasks, browsers,
                 counts, gp, made, progress, failures, stop, crashes>>

\* is_file_being_processed, os.remove of the marker found stale: whatever
\* marker is there now is removed; if none is there, v.py passes and ser.py
\* raises
XRemove(i) ==
  /\ conf.deploy = "processes"
  /\ pc[i] = "SCAN_REMOVE"
  /\ LET f == scan[i].at
     IN IF marker[f] = NoMarker /\ conf.script = "ser"
        THEN /\ pc' = [pc EXCEPT ![i] = "ABORTED"]
             /\ scan' = [scan EXCEPT ![i] = NoScan]
             /\ run' = [run EXCEPT ![i].faults = @ \cup {"remove"}]
             /\ marker' = marker
        ELSE /\ pc' = [pc EXCEPT ![i] = "SCAN"]
             /\ scan' = [scan EXCEPT ![i].todo = @ \ {f}, ![i].at = NoFile,
                                     ![i].available_files = @ \cup {f}]
             /\ run' = run
             /\ marker' = unlock_file(marker, f)
  /\ UNCHANGED <<disk, conf, monitor, updater, cur, data, pending, off, tasks, browsers,
                 counts, gp, made, progress, failures, stop, crashes>>

\* the scan is complete: with nothing available the instance sleeps, or
\* ends after the second empty scan; else random.choice, and process_file
\* up to lock_file, which writes the marker whatever is there
XLock_exclusive(i) ==
  /\ conf.deploy = "processes"
  /\ pc[i] = "SCAN"
  /\ scan[i].todo = {}
  /\ IF scan[i].available_files = {}
     THEN /\ pc' = [pc EXCEPT ![i] = IF scan[i].second THEN "TERMINATED" ELSE "IDLE_WAIT"]
          /\ UNCHANGED <<marker, cur, scan>>
     ELSE \E f \in scan[i].available_files :
            /\ marker[f] = NoMarker
            /\ marker' = lock_file(marker, f, i)
            /\ cur' = [cur EXCEPT ![i] = f]
            /\ scan' = scan
            /\ pc' = [pc EXCEPT ![i] = "LOADING"]
  /\ UNCHANGED <<disk, conf, monitor, updater, data, pending, off, tasks, browsers,
                 counts, gp, made, progress, failures, run, stop, crashes>>

XLock(i) ==
  /\ conf.deploy = "processes"
  /\ pc[i] = "SCAN"
  /\ scan[i].todo = {}
  /\ IF scan[i].available_files = {}
     THEN /\ pc' = [pc EXCEPT ![i] = IF scan[i].second THEN "TERMINATED" ELSE "IDLE_WAIT"]
          /\ UNCHANGED <<marker, cur, scan>>
     ELSE \E f \in scan[i].available_files :
            /\ marker' = lock_file(marker, f, i)
            /\ cur' = [cur EXCEPT ![i] = f]
            /\ scan' = [scan EXCEPT ![i].over = (marker[f] # NoMarker)]
            /\ pc' = [pc EXCEPT ![i] = "LOADING"]
  /\ UNCHANGED <<disk, conf, monitor, updater, data, pending, off, tasks, browsers,
                 counts, gp, made, progress, failures, run, stop, crashes>>

\* unlock_file, os.path.exists: without a marker there is nothing to do
XUnlockExists(i) ==
  /\ conf.deploy = "processes"
  /\ pc[i] = "UNLOCKING"
  /\ IF marker[cur[i]] = NoMarker
     THEN /\ pc' = [pc EXCEPT ![i] = "SCANNING"]
          /\ cur' = [cur EXCEPT ![i] = NoFile]
     ELSE /\ pc' = [pc EXCEPT ![i] = "UNLOCK_REMOVE"]
          /\ cur' = cur
  /\ UNCHANGED <<scan, disk, marker, conf, monitor, updater, data, pending, off, tasks, browsers,
                 counts, gp, made, progress, failures, run, stop, crashes>>

\* unlock_file, os.remove: a marker that is gone by now raises
\* FileNotFoundError, which v.py logs and ser.py lets escape to run_instance
XUnlockRemove(i) ==
  /\ conf.deploy = "processes"
  /\ pc[i] = "UNLOCK_REMOVE"
  /\ marker' = unlock_file(marker, cur[i])
  /\ cur' = [cur EXCEPT ![i] = NoFile]
  /\ pc' = [pc EXCEPT ![i] = IF marker[cur[i]] = NoMarker /\ conf.script = "ser"
                             THEN "ABORTED" ELSE "SCANNING"]
  /\ run' = [run EXCEPT ![i].faults =
               @ \cup (IF marker[cur[i]] = NoMarker THEN {"remove"} ELSE {})]
  /\ UNCHANGED <<scan, disk, conf, monitor, updater, data, pending, off, tasks, browsers,
                 counts, gp, made, progress, failures, stop, crashes>>

\* ------------------------------------------------------------ allanime.py
Workers == DOMAIN updater.worker

WorkFiles == DOMAIN updater.files

\* update_coordination_data: under the flock the file is read, the keys of
\* updates are replaced and the file is written
update_coordination_data(c, up) ==
  [locked_files |-> IF "locked_files" \in up.keys THEN up.val.locked_files
                    ELSE c.locked_files,
   processed_anime |-> IF "processed_anime" \in up.keys THEN up.val.processed_anime
                       ELSE c.processed_anime,
   failed_anime |-> IF "failed_anime" \in up.keys THEN up.val.failed_anime
                    ELSE c.failed_anime,
   total_processed |-> IF "total_processed" \in up.keys THEN up.val.total_processed
                       ELSE c.total_processed]

\* (mutant) lock_file writes locked_files back as it read them
lock_file_updates_none(c, i, f) ==
  [keys |-> {"locked_files"}, val |-> [NoCoordination EXCEPT !.locked_files = c.locked_files]]

\* lock_file: the updates, made from the coordination data c as read by
\* get_coordination_data, before the flock
lock_file_updates(c, i, f) ==
  [keys |-> {"locked_files"},
   val |-> [NoCoordination EXCEPT
              !.locked_files = {q \in c.locked_files : q[1] # f} \cup {<<f, i>>}]]

\* unlock_file
unlock_file_updates(c, f) ==
  [keys |-> {"locked_files"},
   val |-> [NoCoordination EXCEPT !.locked_files = {q \in c.locked_files : q[1] # f}]]

\* mark_anime_processed (the count stops at the size of the largest catalog)
mark_anime_processed_updates(c, id) ==
  [keys |-> {"processed_anime", "total_processed"},
   val |-> [NoCoordination EXCEPT
              !.processed_anime = c.processed_anime \cup {id},
              !.total_processed = IF c.total_processed < MaxAnime
                                  THEN c.total_processed + 1 ELSE c.total_processed]]

\* the except clause of the loop: failed = data["failed_anime"].copy(),
\* failed.append(...)
failed_anime_updates(c, id) ==
  [keys |-> {"failed_anime"},
   val |-> [NoCoordination EXCEPT !.failed_anime = c.failed_anime \cup {id}]]

\* is_file_locked
is_file_locked(c, f) == \E q \in c.locked_files : q[1] = f

\* is_anime_processed
is_anime_processed(u, id) == id \in u.coordination.processed_anime

\* the anime of file f that are not processed (a file without 'anime' has
\* none)
Unprocessed(u, f) ==
  {a \in 1..Len(u.files[f].anime) : ~is_anime_processed(u, u.files[f].anime[a].id)}

\* get_available_work: the files that are not locked and have an anime that
\* is not processed
get_available_work(u) ==
  {f \in DOMAIN u.files : ~is_file_locked(u.coordination, f) /\ Unprocessed(u, f) # {}}

\* available_files[0]: the list is sorted by the number of unprocessed
\* anime, most first, files with the same number staying in directory order
FirstWork(u) ==
  CHOOSE f \in get_available_work(u) :
    \A g \in get_available_work(u) :
      \/ Cardinality(Unprocessed(u, f)) > Cardinality(Unprocessed(u, g))
      \/ Cardinality(Unprocessed(u, f)) = Cardinality(Unprocessed(u, g)) /\ f <= g

\* json.dump(data, f): what the name data is bound to goes to the file; the
\* catalog dict holds the list of anime that the loop works on
DumpData(w) ==
  IF w.data.keys = "catalog" THEN CatalogDoc(w.anime) ELSE w.data

\* with open(filepath, 'w') as f: json.dump(data, f)
Save(u, i) ==
  [u EXCEPT !.files[u.worker[i].filename] = DumpData(u.worker[i]),
            !.worker[i].saves = @ + 1]

\* the loop over data['anime'] goes on after position from: the anime that
\* are processed are skipped, the extraction of the next one starts, or,
\* at the end of the list, the final save is made and the browser closed
Advance(u, i, from) ==
  LET w == u.worker[i]
      rest == {a \in (from + 1)..Len(w.anime) : ~is_anime_processed(u, w.anime[a].id)}
  IN IF rest # {}
     THEN [u EXCEPT !.worker[i].pc = "EXTRACTING", !.worker[i].i = Min(rest)]
     ELSE [Save(u, i) EXCEPT !.worker[i].pc = "CLOSING", !.worker[i].i = 0]

\* what worker i does once its update of the coordination data is written:
\* after lock_file the file is loaded and the browser set up; after
\* mark_anime_processed the anime is counted, the file is saved after every
\* third one, and the pause begins; after the update of failed_anime the
\* loop goes on; after unlock_file process_file returns
Resume(u, i, kind) ==
  LET w == u.worker[i]
      f == w.filename
  IN CASE kind = "lock" ->
            [u EXCEPT !.worker[i] =
               [w EXCEPT !.pc = "BROWSER", !.data = u.files[f],
                         !.anime = u.files[f].anime, !.loaded = u.files[f].anime,
                         !.processed_in_file = 0, !.saves = 0, !.raised = {}]]
       [] kind = "mark" ->
            LET v == [u EXCEPT !.worker[i].processed_in_file = @ + 1,
                               !.worker[i].pc = "PAUSE"]
            IN IF v.worker[i].processed_in_file % SaveEvery = 0 THEN Save(v, i) ELSE v
       [] kind = "fail" -> Advance(u, i, w.i)
       [] OTHER ->
            [u EXCEPT !.worker[i] =
               [w EXCEPT !.pc = "IDLE", !.filename = NoFile, !.i = 0,
                         !.data = CatalogDoc(<<>>), !.anime = <<>>]]

\* a read-modify-write of the coordination data by worker i: the updates
\* were made from what get_coordination_data returned; where the workers
\* are tasks of one process nothing runs between that read and the write of
\* update_coordination_data, where they are processes the write is a step
\* of its own
Begin(u, i, up, kind) ==
  IF conf.deploy = "tasks"
  THEN Resume([u EXCEPT !.coordination = update_coordination_data(@, up)], i, kind)
  ELSE [u EXCEPT !.worker[i].pc = "UPDATING", !.worker[i].updates = up,
                 !.worker[i].then = kind]

\* update_coordination_data of a worker that is a process
UUpdate(i) ==
  /\ updater.worker[i].pc = "UPDATING"
  /\ updater' =
       Resume([updater EXCEPT
                 !.coordination = update_coordination_data(@, updater.worker[i].updates),
                 !.worker[i].updates = NoUpdates,
                 !.worker[i].then = "none"],
              i, updater.worker[i].then)
  /\ UNCHANGED <<scan, disk, marker, conf, monitor, pc, cur, data, pending, off, tasks,
                 browsers, counts, gp, made, progress, failures, run, stop, crashes>>

\* worker_instance: with work available process_file is called on the first
\* file, locks it, loads it and sets up the browser; without, the worker
\* sleeps 30 and looks again, and ends when there is still none
UWork(i) ==
  /\ updater.worker[i].pc \in {"IDLE", "WAITING"}
  /\ updater' =
       IF get_available_work(updater) # {}
       THEN LET f == FirstWork(updater)
            IN Begin([updater EXCEPT !.worker[i].filename = f], i,
                     lock_file_updates(updater.coordination, i, f), "lock")
       ELSE [updater EXCEPT !.worker[i].pc = IF @ = "IDLE" THEN "WAITING" ELSE "FINISHED"]
  /\ UNCHANGED <<scan, disk, marker, conf, monitor, pc, cur, data, pending, off, tasks,
                 browsers, counts, gp, made, progress, failures, run, stop, crashes>>

\* setup_browser returns and the loop begins (over a file without 'anime'
\* it raises KeyError at once), or setup_browser raises and process_file
\* ends in its except clause and unlocks
USetup(i) ==
  /\ updater.worker[i].pc = "BROWSER"
  /\ \E ok \in BOOLEAN :
       updater' =
         IF ~ok
         THEN Begin(updater, i,
                    unlock_file_updates(updater.coordination, updater.worker[i].filename),
                    "unlock")
         ELSE IF updater.worker[i].data.keys = "catalog"
         THEN Advance(updater, i, 0)
         ELSE [updater EXCEPT !.worker[i].pc = "CLOSING"]
  /\ UNCHANGED <<scan, disk, marker, conf, monitor, pc, cur, data, pending, off, tasks,
                 browsers, counts, gp, made, progress, failures, run, stop, crashes>>

\* the except clause of the loop: data = self.get_coordination_data()
Rebound(u) == CoordinationDoc(u.coordination)

\* extract_episodes_simple returns the episodes ("new", or "empty" for
\* none): the anime is updated and marked processed, the file is saved
\* after every third one, and the pause begins; or it raises: the except
\* clause reads the coordination data, appends the failure, and the loop
\* goes on
UExtract(i) ==
  /\ updater.worker[i].pc = "EXTRACTING"
  /\ LET u == updater
         w == u.worker[i]
         id == w.anime[w.i].id
     IN \E out \in conf.outcomes :
          updater' =
            IF out # "raise"
            THEN Begin([u EXCEPT !.worker[i].anime[w.i].episodes = out], i,
                       mark_anime_processed_updates(u.coordination, id), "mark")
            ELSE Begin([u EXCEPT !.worker[i].data = Rebound(u),
                                 !.worker[i].raised = @ \cup {id}], i,
                       failed_anime_updates(u.coordination, id), "fail")
  /\ UNCHANGED <<scan, disk, marker, conf, monitor, pc, cur, data, pending, off, tasks,
                 browsers, counts, gp, made, progress, failures, run, stop, crashes>>

\* smart_wait ends: the next anime
UPause(i) ==
  /\ updater.worker[i].pc = "PAUSE"
  /\ updater' = Advance(updater, i, updater.worker[i].i)
  /\ UNCHANGED <<scan, disk, marker, conf, monitor, pc, cur, data, pending, off, tasks,
                 browsers, counts, gp, made, progress, failures, run, stop, crashes>>

\* close_browser returns, the file is unlocked and process_file returns
UClose(i) ==
  /\ updater.worker[i].pc = "CLOSING"
  /\ updater' = Begin(updater, i,
                      unlock_file_updates(updater.coordination, updater.worker[i].filename),
                      "unlock")
  /\ UNCHANGED <<scan, disk, marker, conf, monitor, pc, cur, data, pending, off, tasks,
                 browsers, counts, gp, made, progress, failures, run, stop, crashes>>

\* ------------------------------------------------------------ environment
\* time passes: every marker grows older (ages beyond the threshold are
\* all alike)
Older(m, d) ==
  IF m = NoMarker THEN m
  ELSE [m EXCEPT !.age = IF @ + d > STALE_AFTER THEN STALE_AFTER + 1 ELSE @ + d]

Tick ==
  /\ \E d \in TickSteps : marker' = [f \in Files |-> Older(marker[f], d)]
  /\ marker' # marker
  /\ UNCHANGED <<scan, disk, conf, monitor, updater, pc, cur, data, pending, off, tasks, browsers,
                 counts, gp, made, progress, failures, run, stop, crashes>>

\* what a forced stop of instance i leaves behind, for the record: the file
\* it was in, the number k of completed checkpoints, and the episodes that
\* were done at load or resolved in waves 1..k
StopRecord(i) ==
  IF cur[i] = NoFile \/ pc[i] = "LOADING" THEN NoStop
  ELSE [file |-> cur[i], k |-> run[i].writes, M |-> Ceil(run[i].P, run[i].W),
        seen |-> FALSE,
        resolved |-> DoneIds(run[i].loaded) \cup
                     {id \in DOMAIN data[i].objs :
                        \E w \in 1..run[i].writes : <<id, w>> \in run[i].resolved}]

\* the process is killed between checkpoints: memory is lost, the files
\* and the markers stay
Crash ==
  /\ crashes < MaxCrashes
  /\ \A i \in Inst : pc[i] \notin {"SAVING", "STOPPED", "EXITED"}
  /\ crashes' = crashes + 1
  /\ stop' = [i \in Inst |-> StopRecord(i)]
  /\ pc' = [i \in Inst |-> "STOPPED"]
  /\ cur' = [i \in Inst |-> NoFile]
  /\ data' = [i \in Inst |-> NoData]
  /\ pending' = [i \in Inst |-> <<>>]
  /\ off' = [i \in Inst |-> 0]
  /\ tasks' = [i \in Inst |-> <<>>]
  /\ browsers' = [i \in Inst |-> <<>>]
  /\ counts' = [i \in Inst |-> ZeroCounts]
  /\ made' = [i \in Inst |-> {}]
  /\ progress' = [i \in Inst |-> Idle]
  /\ run' = [i \in Inst |-> NoRun]
  /\ scan' = [i \in Inst |-> NoScan]
  /\ UNCHANGED <<disk, marker, conf, monitor, updater, gp, failures>>

\* the script is started again: the pre-scan of main(), then the instances
\* (v.py starts none when it finds no file or nothing pending)
Restart ==
  /\ \A i \in Inst : pc[i] = "STOPPED"
  /\ marker' = ScanMarkers(marker)
  /\ IF conf.script = "v"
     THEN /\ pc' = [i \in Inst |-> IF MainStartsV(disk, marker) THEN "STARTING" ELSE "EXITED"]
          /\ gp' = gp
     ELSE /\ pc' = [i \in Inst |-> "STARTING"]
          /\ gp' = Prescan(disk, marker)
  /\ UNCHANGED <<scan, disk, conf, monitor, updater, cur, data, pending, off, tasks, browsers,
                 counts, made, progress, failures, run, stop, crashes>>

\* ------------------------------------------------------- specifications
Configs(scripts, cap, modes) ==
  {c \in [script : scripts, max_browsers : 1..cap, max_tabs_per_browser : 1..cap,
          outcomes : modes, deploy : {"tasks"}, faults : {{}}, slow : {FALSE}] :
     c.max_browsers * c.max_tabs_per_browser <= cap}

\* v.py, several instances over a small backlog
InitV ==
  /\ \E n \in 1..MaxInstances : Fresh(n)
  /\ \E nf \in 1..MaxFiles : disk \in [1..nf -> SmallCatalogs]
  /\ marker = [f \in Files |-> NoMarker]
  /\ conf \in Configs({"v"}, 1, {{"new", Null}})
  /\ gp = NoProgress
  /\ MainStartsV(disk, marker)

\* the steps of instance i running v.py
VStep(i) ==
  \/ InitBrowsers(i)
  \/ VScan(i)
  \/ VLoad(i)
  \/ \E k \in 1..Len(tasks[i]) : TaskAcquire(i, k)
  \/ \E k \in 1..Len(tasks[i]) : TaskExtract(i, k)
  \/ VBarrier(i)
  \/ VSave(i)

NextV ==
  \/ \E i \in Inst : InitBrowsers(i)
  \/ \E i \in Inst : VScan(i)
  \/ \E i \in Inst : VLoad(i)
  \/ \E i \in Inst : \E k \in 1..Len(tasks[i]) : TaskAcquire(i, k)
  \/ \E i \in Inst : \E k \in 1..Len(tasks[i]) : TaskExtract(i, k)
  \/ \E i \in Inst : VBarrier(i)
  \/ \E i \in Inst : VSave(i)
  \/ Tick

SpecV == InitV /\ [][NextV]_vars

\* the event loop runs every task that is ready, and every extraction and
\* every sleep ends: each instance keeps taking its steps
InitLiveV == InitV /\ Cardinality(Files) = 1

LiveSpecV ==
  /\ InitLiveV
  /\ [][NextV]_vars
  /\ \A i \in 1..MaxInstances : WF_vars(i \in Inst /\ VStep(i))

Conf(sc, b, t, o) ==
  [script |-> sc, max_browsers |-> b, max_tabs_per_browser |-> t, outcomes |-> o,
   deploy |-> "tasks", faults |-> {}, slow |-> FALSE]

\* a catalog of two pending episodes, the first of them without a url
NoUrlCat == <<<<Ep(NoUrl, Null), Ep(1, Null)>>>>

\* the wave scenarios, each a configuration and the catalog of the one file:
\*  - v.py over MaxPending pending episodes with one browser of MaxTabs tabs
\*    and a collaborator that succeeds (7 pending in waves of 3),
\*  - ser.py over two full batches and one episode more, with a tab for
\*    every episode of a batch and a collaborator that succeeds,
\*  - both scripts over 0..MaxSmallPending pending episodes, or over an
\*    episode without url, with two tabs in one or in two browsers and a
\*    collaborator that may fail
WaveScenarios ==
  {<<Conf("v", 1, MaxTabs, {"new"}), WaveCat(MaxPending)>>,
   <<Conf("ser", 1, batch_size_ser, {"new"}), WaveCat(2 * batch_size_ser + 1)>>}
  \cup
  {<<Conf(sc, bt[1], bt[2], {"new", Null}), cat>> :
     sc \in {"v", "ser"}, bt \in {<<1, 2>>, <<2, 1>>},
     cat \in {WaveCat(P) : P \in 0..MaxSmallPending} \cup {NoUrlCat}}

\* one instance over one file, with forced stops
InitW ==
  /\ Fresh(1)
  /\ \E sc \in WaveScenarios : conf = sc[1] /\ disk = <<sc[2]>>
  /\ marker = [f \in Files |-> NoMarker]
  /\ IF conf.script = "v"
     THEN gp = NoProgress /\ MainStartsV(disk, marker)
     ELSE gp = Prescan(disk, marker)

NextW ==
  \/ \E i \in Inst : InitBrowsers(i)
  \/ \E i \in Inst : VScan(i)
  \/ \E i \in Inst : VLoad(i)
  \/ \E i \in Inst : VBarrier(i)
  \/ \E i \in Inst : VSave(i)
  \/ \E i \in Inst : SerScan(i)
  \/ \E i \in Inst : SerLoad(i)
  \/ \E i \in Inst : SerBarrier(i)
  \/ \E i \in Inst : SerSave(i)
  \/ \E i \in Inst : \E k \in 1..Len(tasks[i]) : TaskAcquire(i, k)
  \/ \E i \in Inst : \E k \in 1..Len(tasks[i]) : TaskExtract(i, k)
  \/ Tick
  \/ Crash
  \/ Restart

SpecW == InitW /\ [][NextW]_vars

\* one instance over one file of 1..MaxSmallPending pending episodes, with
\* one or two tabs, extractions that may be slow and a collaborator that
\* may fail or that always fails
PoolScenarios ==
  UNION {{<<[Conf(sc, 1, t, o) EXCEPT !.slow = TRUE], WaveCat(P)>> :
            sc \in {"v", "ser"}, t \in 1..2, P \in 1..MaxSmallPending} :
         o \in {{"new", Null}, {Null}}}

InitP ==
  /\ Fresh(1)
  /\ \E sc \in PoolScenarios : conf = sc[1] /\ disk = <<sc[2]>>
  /\ marker = [f \in Files |-> NoMarker]
  /\ gp = IF conf.script = "v" THEN NoProgress ELSE Prescan(disk, marker)

\* the steps of instance i
Step(i) ==
  \/ InitBrowsers(i)
  \/ VScan(i)
  \/ VLoad(i)
  \/ VBarrier(i)
  \/ VSave(i)
  \/ SerScan(i)
  \/ SerLoad(i)
  \/ SerBarrier(i)
  \/ SerSave(i)
  \/ \E k \in 1..Len(tasks[i]) : TaskAcquire(i, k)
  \/ \E k \in 1..Len(tasks[i]) : TaskExtract(i, k)

NextP ==
  \/ \E i \in Inst : InitBrowsers(i)
  \/ \E i \in Inst : VScan(i)
  \/ \E i \in Inst : VLoad(i)
  \/ \E i \in Inst : VBarrier(i)
  \/ \E i \in Inst : VSave(i)
  \/ \E i \in Inst : SerScan(i)
  \/ \E i \in Inst : SerLoad(i)
  \/ \E i \in Inst : SerBarrier(i)
  \/ \E i \in Inst : SerSave(i)
  \/ \E i \in Inst : \E k \in 1..Len(tasks[i]) : TaskAcquire(i, k)
  \/ \E i \in Inst : \E k \in 1..Len(tasks[i]) : TaskExtract(i, k)

SpecP == InitP /\ [][NextP]_vars

\* the event loop runs every task that is ready, and every extraction and
\* every sleep ends
LiveSpecP ==
  /\ InitP
  /\ [][NextP]_vars
  /\ \A i \in 1..MaxInstances : WF_vars(i \in Inst /\ Step(i))

\* the I/O operations that may fail
MarkerFaults == {"lock", "unlock", "stale"}

FileFaults == {"read", "write"}

\* a marker that a run which was killed a moment ago has left behind
Leftover == [holder |-> 0, age |-> 0]

\* either script, one instance over a small backlog, with I/O errors and
\* with markers left behind
InitF ==
  /\ Fresh(1)
  /\ \E nf \in 1..MaxFiles : disk \in [1..nf -> SmallCatalogs]
  /\ marker \in [Files -> {NoMarker, Leftover}]
  /\ \E sc \in {"v", "ser"} :
       conf = [Conf(sc, 1, 1, {"new", Null}) EXCEPT !.faults = MarkerFaults \cup FileFaults]
  /\ IF conf.script = "v"
     THEN gp = NoProgress /\ MainStartsV(disk, marker)
     ELSE gp = Prescan(disk, marker)

NextF ==
  \/ \E i \in Inst : InitBrowsers(i)
  \/ \E i \in Inst : VScan(i)
  \/ \E i \in Inst : VLoad(i)
  \/ \E i \in Inst : VBarrier(i)
  \/ \E i \in Inst : VSave(i)
  \/ \E i \in Inst : SerScan(i)
  \/ \E i \in Inst : SerLoad(i)
  \/ \E i \in Inst : SerBarrier(i)
  \/ \E i \in Inst : SerSave(i)
  \/ \E i \in Inst : \E k \in 1..Len(tasks[i]) : TaskAcquire(i, k)
  \/ \E i \in Inst : \E k \in 1..Len(tasks[i]) : TaskExtract(i, k)
  \/ Tick

SpecF == InitF /\ [][NextF]_vars

\* scenario B: v.py, two instances over a backlog of two files with one
\* pending episode each, a collaborator that succeeds, no forced stop
InitB ==
  /\ Fresh(MaxInstances)
  /\ disk = [f \in 1..MaxFiles |-> <<<<Ep(f, Null)>>>>]
  /\ marker = [f \in Files |-> NoMarker]
  /\ conf = Conf("v", 1, 1, {"new"})
  /\ gp = NoProgress
  /\ MainStartsV(disk, marker)

\* the event loop runs every task that is ready, and every extraction and
\* every sleep ends
LiveSpecB ==
  /\ InitB
  /\ [][NextV]_vars
  /\ \A i \in 1..MaxInstances : WF_vars(i \in Inst /\ VStep(i))

\* either script, several instances over one small file that may carry a
\* marker left behind
InitI ==
  /\ \E n \in 1..MaxInstances : Fresh(n)
  /\ disk \in [{1} -> SmallCatalogs]
  /\ marker \in [Files -> {NoMarker, Leftover}]
  /\ \E sc \in {"v", "ser"} : conf = Conf(sc, 1, 1, {"new", Null})
  /\ IF conf.script = "v"
     THEN gp = NoProgress /\ MainStartsV(disk, marker)
     ELSE gp = Prescan(disk, marker)

NextI ==
  \/ \E i \in Inst : InitBrowsers(i)
  \/ \E i \in Inst : VScan(i)
  \/ \E i \in Inst : VLoad(i)
  \/ \E i \in Inst : VBarrier(i)
  \/ \E i \in Inst : VSave(i)
  \/ \E i \in Inst : SerScan(i)
  \/ \E i \in Inst : SerLoad(i)
  \/ \E i \in Inst : SerBarrier(i)
  \/ \E i \in Inst : SerSave(i)
  \/ \E i \in Inst : \E k \in 1..Len(tasks[i]) : TaskAcquire(i, k)
  \/ \E i \in Inst : \E k \in 1..Len(tasks[i]) : TaskExtract(i, k)
  \/ Tick

SpecI == InitI /\ [][NextI]_vars

\* catalogs of two episodes, in one anime or in two, whose urls may be the
\* same or missing
TwinCatalogs ==
  UNION {{<<<<Ep(u[1], r[1]), Ep(u[2], r[2])>>>>,
          <<<<Ep(u[1], r[1])>>, <<Ep(u[2], r[2])>>>>} :
         u \in [1..2 -> {NoUrl, 1, 2}], r \in [1..2 -> {Null, "old"}]}

\* ser.py, one instance over one file of two episodes
InitD ==
  /\ Fresh(1)
  /\ disk \in [{1} -> TwinCatalogs]
  /\ marker = [f \in Files |-> NoMarker]
  /\ conf = Conf("ser", 1, 2, {"new", Null})
  /\ gp = Prescan(disk, marker)

NextD ==
  \/ \E i \in Inst : InitBrowsers(i)
  \/ \E i \in Inst : SerScan(i)
  \/ \E i \in Inst : SerLoad(i)
  \/ \E i \in Inst : SerBarrier(i)
  \/ \E i \in Inst : SerSave(i)
  \/ \E i \in Inst : \E k \in 1..Len(tasks[i]) : TaskAcquire(i, k)
  \/ \E i \in Inst : \E k \in 1..Len(tasks[i]) : TaskExtract(i, k)

SpecD == InitD /\ [][NextD]_vars

\* allanime.py: the catalog files of the letters hold anime with ids of
\* their own
AnimeId(f, a) == (f - 1) * MaxAnime + a

UpdaterCatalog(f, n) == [a \in 1..n |-> [id |-> AnimeId(f, a), episodes |-> "old"]]

\* coordination.json where earlier runs have processed the anime of done
Processed(done) ==
  [NoCoordination EXCEPT !.processed_anime = done,
                         !.total_processed = Cardinality(done)]

\* allanime.py: one instance over one catalog file of 1..MaxAnime anime,
\* some of which earlier runs have processed
InitU ==
  /\ Instances(1)
  /\ disk = <<<<<<Ep(1, Null)>>>>>>
  /\ marker = [f \in Files |-> NoMarker]
  /\ conf = Conf("allanime", 1, 1, {"new", "empty", "raise"})
  /\ gp = NoProgress
  /\ \E n \in 1..MaxAnime : \E done \in SUBSET {AnimeId(1, a) : a \in 1..n} :
       updater = [files |-> <<CatalogDoc(UpdaterCatalog(1, n))>>,
                  coordination |-> Processed(done),
                  worker |-> <<NoWorker>>]

NextU ==
  \/ \E i \in Workers : UWork(i)
  \/ \E i \in Workers : USetup(i)
  \/ \E i \in Workers : UExtract(i)
  \/ \E i \in Workers : UPause(i)
  \/ \E i \in Workers : UClose(i)

SpecU == InitU /\ [][NextU]_vars

\* the catalog files of the multi-instance updater scenarios: 1..MaxFiles
\* files of 1..MaxWorkAnime anime each
WorkCatalogs ==
  UNION {{[f \in 1..nf |-> CatalogDoc(UpdaterCatalog(f, n[f]))] :
            n \in [1..nf -> 1..MaxWorkAnime]} : nf \in 1..MaxFiles}

\* allanime.py: several worker instances over several catalog files, none
\* of the anime processed; the workers are tasks of one process
\* (run_multi_instance) or processes of their own
InitWorkers(deploy, outcomes) ==
  /\ Instances(1)
  /\ disk = <<<<<<Ep(1, Null)>>>>>>
  /\ marker = [f \in Files |-> NoMarker]
  /\ conf = [Conf("allanime", 1, 1, outcomes) EXCEPT !.deploy = deploy]
  /\ gp = NoProgress
  /\ \E n \in 1..MaxInstances : \E fs \in WorkCatalogs :
       updater = [files |-> fs, coordination |-> NoCoordination,
                  worker |-> [i \in 1..n |-> NoWorker]]

InitA == InitWorkers("tasks", {"new", "empty", "raise"})

SpecA == InitA /\ [][NextU]_vars

\* the workers as processes, with extractions that succeed
InitY == InitWorkers("processes", {"new"})

NextY ==
  \/ \E i \in Workers : UWork(i)
  \/ \E i \in Workers : USetup(i)
  \/ \E i \in Workers : UExtract(i)
  \/ \E i \in Workers : UPause(i)
  \/ \E i \in Workers : UClose(i)
  \/ \E i \in Workers : UUpdate(i)

SpecY == InitY /\ [][NextY]_vars

\* ser.py with its progress monitor: several instances over a small backlog
InitM ==
  /\ \E n \in 1..MaxInstances : Fresh(n)
  /\ \E nf \in 1..MaxFiles : disk \in [1..nf -> SmallCatalogs]
  /\ marker = [f \in Files |-> NoMarker]
  /\ conf = Conf("ser", 1, 1, {"new", Null})
  /\ gp = Prescan(disk, marker)

NextM ==
  \/ \E i \in Inst : InitBrowsers(i)
  \/ \E i \in Inst : SerScan(i)
  \/ \E i \in Inst : SerLoad(i)
  \/ \E i \in Inst : SerBarrier(i)
  \/ \E i \in Inst : SerSave(i)
  \/ \E i \in Inst : \E k \in 1..Len(tasks[i]) : TaskAcquire(i, k)
  \/ \E i \in Inst : \E k \in 1..Len(tasks[i]) : TaskExtract(i, k)
  \/ MonitorTick

SpecM == InitM /\ [][NextM]_vars

\* either script, every instance a process of its own, over one small file
InitX ==
  /\ \E n \in 1..MaxInstances : Fresh(n)
  /\ disk \in [{1} -> SmallCatalogs]
  /\ marker = [f \in Files |-> NoMarker]
  /\ \E sc \in {"v", "ser"} :
       conf = [Conf(sc, 1, 1, {"new", Null}) EXCEPT !.deploy = "processes"]
  /\ gp = NoProgress
  /\ MainStartsV(disk, marker)

NextX ==
  \/ \E i \in Inst : InitBrowsers(i)
  \/ \E i \in Inst : XList(i)
  \/ \E i \in Inst : XExists(i)
  \/ \E i \in Inst : XStat(i)
  \/ \E i \in Inst : XRemove(i)
  \/ \E i \in Inst : XLock(i)
  \/ \E i \in Inst : VLoad(i)
  \/ \E i \in Inst : VBarrier(i)
  \/ \E i \in Inst : VSave(i)
  \/ \E i \in Inst : SerLoad(i)
  \/ \E i \in Inst : SerBarrier(i)
  \/ \E i \in Inst : SerSave(i)
  \/ \E i \in Inst : \E k \in 1..Len(tasks[i]) : TaskAcquire(i, k)
  \/ \E i \in Inst : \E k \in 1..Len(tasks[i]) : TaskExtract(i, k)
  \/ \E i \in Inst : XUnlockExists(i)
  \/ \E i \in Inst : XUnlockRemove(i)
  \/ Tick

SpecX == InitX /\ [][NextX]_vars

\* ------------------------------------------------------------ properties
InFile(i) == cur[i] # NoFile

\* C1: at every moment at most one instance is inside process_file (between
\* its lock_file and its unlock_file) for any given work-item file.
C1_MutualExclusion ==
  \A i \in Inst : \A j \in Inst :
    (i # j /\ InFile(i)) => cur[i] # cur[j]

BacklogExhausted == \A f \in Files : PendingOf(disk[f]) = <<>>

AllTerminated == \A i \in Inst : pc[i] = "TERMINATED"

\* C2: once every sub-item of every work item has a result, every
\* instance's run_instance loop eventually reaches TERMINATED, under fair
\* scheduling.
C2_Termination == BacklogExhausted ~> AllTerminated

\* ------------------------------------------------------- properties, waves
RECURSIVE FreeCount(_)
FreeCount(bs) == IF bs = <<>> THEN 0 ELSE Len(Head(bs).tabs) + FreeCount(Tail(bs))

Holders(i, tab) == {k \in 1..Len(tasks[i]) : tasks[i][k].tab = tab}

CheckedOut(i) == {k \in 1..Len(tasks[i]) : tasks[i][k].tab # NoTab}

FreeSlots(i, tab) ==
  {<<b, n>> \in (1..Len(browsers[i])) \X (1..(Cardinality(made[i]) + 1)) :
     n <= Len(browsers[i][b].tabs) /\ browsers[i][b].tabs[n] = tab}

PoolLive(i) == pc[i] \notin {"STARTING", "STOPPED", "EXITED"}

AllCreated(ts) == ts # <<>> /\ \A k \in 1..Len(ts) : ts[k].st = "created"

Positions(cat) == UNION {{<<a, e>> : e \in 1..Len(cat[a])} : a \in 1..Len(cat)}

HasResult(cat, id) == cat[id[1]][id[2]].iframe_url # Null

AllResolved(cat) == \A id \in Positions(cat) : HasResult(cat, id)

\* C3: (v.py) the whole work item is written once after each wave, ceil(P/W)
\* writes in total, and no sub-item of wave N+1 starts before the checkpoint
\* of wave N is written: while wave N is in flight exactly N-1 checkpoints
\* are written and the file holds everything the earlier waves produced.
C3_CheckpointEveryWave ==
  \A i \in Inst :
    conf.script = "v" =>
      /\ run[i].done => run[i].writes = Ceil(run[i].P, run[i].W)
      /\ pc[i] = "WAVE" =>
           /\ run[i].writes = run[i].wave - 1
           /\ disk[cur[i]] = Dump(data[i])
      /\ pc[i] = "SAVING" => run[i].writes = run[i].wave - 1

C3_Witness ==
  \E i \in Inst :
    /\ conf.script = "v"
    /\ run[i].done
    /\ run[i].P = 7 /\ run[i].W = 3 /\ run[i].writes = 3

\* the results in memory that the file of instance i does not hold
Lacking(i) ==
  {id \in Positions(disk[cur[i]]) :
     HasResult(Dump(data[i]), id) /\ ~HasResult(disk[cur[i]], id)}

\* C4: (ser.py) at any point between two waves the durable work-item file
\* lacks at most one wave's worth of the results computed so far.
C4_BoundedLoss ==
  \A i \in Inst :
    (conf.script = "ser" /\ pc[i] = "WAVE" /\ AllCreated(tasks[i]))
      => Cardinality(Lacking(i)) <= batch_size_ser

\* C5: (v.py) after a forced stop after wave k and a restart, process_file
\* finds exactly the sub-items resolved in waves 1..k (and those done
\* before) marked done, and extracts none of them.
C5_Resume ==
  \A i \in Inst :
    (conf.script = "v" /\ run[i].resume) =>
      /\ {id \in Positions(run[i].loaded) : HasResult(run[i].loaded, id)} = stop[i].resolved
      /\ run[i].called \cap stop[i].resolved = {}

C5_Witness ==
  \E i \in Inst :
    /\ conf.script = "v"
    /\ run[i].resume
    /\ stop[i].k >= 1 /\ stop[i].k < stop[i].M
    /\ run[i].called # {}

\* C6: the extraction collaborator is invoked only for sub-items whose
\* result was null when the work item was loaded.
C6_DoneNeverReprocessed ==
  \A i \in Inst : \A id \in run[i].called : ~HasResult(run[i].loaded, id)

C6_Witness ==
  \E i \in Inst :
    /\ run[i].done
    /\ run[i].called # {}
    /\ \E id \in Positions(run[i].loaded) : HasResult(run[i].loaded, id)

\* C7: process_file on a work item whose sub-items all have a result makes
\* no extraction call, acquires no tab and leaves every result unchanged.
C7_IdempotentNoExtraction ==
  \A i \in Inst :
    (run[i].file # NoFile /\ AllResolved(run[i].loaded)) =>
      /\ run[i].called = {}
      /\ run[i].tabs = 0
      /\ disk[run[i].file] = run[i].loaded
      /\ InFile(i) /\ data[i] # NoData => Dump(data[i]) = run[i].loaded

C7_Witness ==
  \E i \in Inst :
    /\ conf.script = "ser"
    /\ run[i].done
    /\ AllResolved(run[i].loaded)

\* C8: (ser.py) process_file on a work item whose sub-items all have a
\* result performs zero writes to the durable work-item file.
C8_IdempotentNoWrite ==
  \A i \in Inst :
    (conf.script = "ser" /\ run[i].done /\ AllResolved(run[i].loaded))
      => run[i].writes = 0

\* C9: the tabs in all free lists plus the tabs checked out are as many as
\* init_browsers created.
C9_PoolConservation ==
  \A i \in Inst :
    PoolLive(i) =>
      FreeCount(browsers[i]) + Cardinality(CheckedOut(i)) = Cardinality(made[i])

C9_Witness ==
  \E i \in Inst :
    /\ Cardinality(CheckedOut(i)) = 1
    /\ FreeCount(browsers[i]) >= 1
    /\ \E k \in 1..Len(tasks[i]) : tasks[i][k].st = "done" /\ tasks[i][k].ep \in run[i].called

\* C10: each tab is in exactly one place of one free list or held by
\* exactly one in-flight task, never both and never neither.
C10_NoDoubleIssue ==
  \A i \in Inst :
    PoolLive(i) =>
      /\ \A tab \in made[i] :
           Cardinality(FreeSlots(i, tab)) + Cardinality(Holders(i, tab)) = 1
      /\ \A k \in CheckedOut(i) : tasks[i][k].tab \in made[i]

C10_Witness ==
  \E i \in Inst : \E k \in CheckedOut(i) : \E j \in CheckedOut(i) :
    k # j /\ tasks[i][k].tab # tasks[i][j].tab

\* ------------------------------------------------- properties, second part
\* task k of the wave of instance i has called get_available_tab and has no
\* tab yet
WantsTab(i, k) ==
  /\ i \in Inst
  /\ pc[i] = "WAVE"
  /\ k <= Len(tasks[i])
  /\ tasks[i][k].st = "waiting"

\* task k holds a tab, or has ended after it held one
ObtainedTab(i, k) ==
  /\ i \in Inst
  /\ k <= Len(tasks[i])
  /\ \/ tasks[i][k].st = "extracting"
     \/ tasks[i][k].st = "done" /\ ~IsException(tasks[i][k].res)

WaveOver(i) == i \in Inst /\ pc[i] # "WAVE"

\* C11: with at least one tab in the pool and extractions that end, every
\* task that waits for a tab eventually obtains one, and every wave
\* eventually completes, also when the wave has more tasks than the pool
\* has tabs.
C11_PoolLiveness ==
  \A i \in 1..MaxInstances :
    /\ \A k \in 1..MaxSmallPending :
         (WantsTab(i, k) /\ made[i] # {}) ~> ObtainedTab(i, k)
    /\ (i \in Inst /\ pc[i] = "WAVE" /\ made[i] # {}) ~> WaveOver(i)

\* the call of process_file of instance i on file f returns in this step
Returns(i, f) ==
  /\ run'[i].done \/ run'[i].failed
  /\ run'[i] # run[i]
  /\ run'[i].file = f

\* C12: when process_file returns, after success, after the early return
\* for a fully processed item or after a caught exception, the marker of
\* the work item is gone, unless its removal met an I/O error.
C12_LockReleased ==
  [][\A i \in Inst : \A f \in Files :
       (Returns(i, f) /\ "unlock" \notin run'[i].faults) => marker'[f] = NoMarker]_vars

C12_Witness ==
  \E i \in Inst :
    /\ run[i].failed
    /\ run[i].faults = {"write"}
    /\ pc[i] = "SCANNING"
    /\ marker[run[i].file] = NoMarker

\* C15: an I/O error on a marker (its creation in lock_file, its removal in
\* unlock_file, the removal of a stale marker during a scan) never ends
\* the loop of run_instance.
C15_MarkerErrorsSwallowed ==
  \A i \in Inst :
    run[i].faults \cap MarkerFaults # {} => pc[i] # "ABORTED"

\* C16: an exception while one work item is processed (the file cannot be
\* read or parsed, the checkpoint cannot be written) is caught inside
\* process_file: run_instance is back at its scan and can go on.
C16_ItemFailureNotTerminal ==
  \A i \in Inst :
    (run[i].failed /\ run[i].faults \cap MarkerFaults = {}) =>
      /\ pc[i] = "SCANNING"
      /\ ENABLED (VScan(i) \/ SerScan(i))

C16_Witness ==
  \E i \in Inst :
    /\ run[i].failed
    /\ run[i].faults = {"read"}
    /\ counts[i].files_processed_count > 0
    /\ pc[i] = "SCANNING"

\* instance i completes a scan in this step
Scans(i) == pc[i] \in {"SCANNING", "IDLE_WAIT"} /\ pc'[i] # pc[i]

\* C13: a scan reports exactly the work items without a marker or with a
\* marker older than 600 (a marker of age 600 still locks); the stale
\* markers of the reported items are removed; so an item that another
\* instance has locked within the last 600 time-units is not reported, and
\* its marker stays.
C13_ScanResult ==
  [][\A i \in Inst : Scans(i) =>
       /\ scan'[i].available_files =
            {f \in Files : marker[f] = NoMarker \/ marker[f].age > 600}
       /\ \A f \in scan'[i].available_files :
            \/ marker'[f] = NoMarker
            \/ cur'[i] = f /\ marker'[f] = [holder |-> i, age |-> 0]
       /\ \A f \in Files :
            (marker[f] # NoMarker /\ marker[f].age <= 600) =>
              /\ f \notin scan'[i].available_files
              /\ marker'[f] = marker[f]
       /\ cur'[i] # NoFile => cur'[i] \in scan'[i].available_files]_vars

\* a scan has removed the stale marker of a file that its holder is still
\* processing, and has reported the file
C13_Witness ==
  \E i \in Inst : \E j \in Inst :
    /\ i # j
    /\ InFile(j) /\ cur[i] = cur[j]
    /\ pc[i] = "LOADING"
    /\ marker[cur[i]] = [holder |-> i, age |-> 0]
    /\ cur[i] \in scan[i].available_files

\* C17: also when two instances process the same work item at the same
\* time, a result that is on durable storage is never replaced by null, or
\* dropped, by a later write of the whole file.
C17_NoLossUnderDuplicates ==
  [][\A f \in Files : \A id \in Positions(disk[f]) :
       HasResult(disk[f], id) =>
         id \in Positions(disk'[f]) /\ HasResult(disk'[f], id)]_vars

\* C18: the claim is not atomic.  An instance whose scan is complete and
\* reported a file available can write its marker on that file and enter
\* process_file whatever marker is there by then: lock_file does not verify
\* the absence of a competing marker
C18_ClaimNotAtomic ==
  \A i \in Inst : \A f \in Files :
    (pc[i] = "SCAN" /\ scan[i].todo = {} /\ f \in scan[i].available_files)
      => ENABLED (XLock(i) /\ cur'[i] = f /\ pc'[i] = "LOADING")

\* two instances are in process_file on the same file, the second having
\* written its marker over the first's: both scans reported the file
\* available before either marker existed
C18_Witness ==
  \E i, j \in Inst :
    /\ i # j
    /\ InFile(i) /\ InFile(j)
    /\ cur[i] = cur[j]
    /\ cur[i] \in scan[i].available_files \cap scan[j].available_files
    /\ ~scan[i].over /\ scan[j].over
    /\ marker[cur[j]] # NoMarker /\ marker[cur[j]].holder = j
    /\ marker[cur[j]].age = 0

\* C14: release is idempotent and never fails its caller.  unlock_file
\* leaves no marker on the file and touches no other file's marker, a second
\* call changes nothing, and no step of unlock_file ends the instance that
\* called it, another instance's removal of the marker in between included
C14_ReleaseNeverRaises ==
  [][/\ \A f \in Files :
          /\ unlock_file(marker, f)[f] = NoMarker
          /\ \A g \in Files \ {f} : unlock_file(marker, f)[g] = marker[g]
          /\ unlock_file(unlock_file(marker, f), f) = unlock_file(marker, f)
      /\ \A i \in Inst :
          pc[i] \in {"UNLOCKING", "UNLOCK_REMOVE"} => pc'[i] # "ABORTED"]_vars

\* the episodes of a catalog that are pending when it is loaded
PendingAtLoad(cat) == {id \in Positions(cat) : ~HasResult(cat, id)}

\* the failure log holds a record that names the episode and a reason
Recorded(ep, reasons) ==
  \E r \in failures : r.episode.url = ep.url /\ r.reason \in reasons

FailureShapes == {RecursionError, "No iframe found (None result)"}

\* C19: result guarantee of ser.py.  When process_file has returned
\* normally, every episode that was pending at load has a result in the
\* file or a record in the failure log that names it and the reason, be it
\* that the extraction raised or that it returned nothing
C19_ResultGuarantee ==
  \A i \in Inst :
    (conf.script = "ser" /\ run[i].done /\ ~run[i].failed) =>
      \A id \in PendingAtLoad(run[i].loaded) :
        \/ HasResult(disk[run[i].file], id)
        \/ /\ Recorded(run[i].loaded[id[1]][id[2]], FailureShapes)
           /\ disk[run[i].file][id[1]][id[2]].iframe_url = Null

\* process_file has returned with one episode extracted, one whose
\* extraction raised and one whose extraction returned nothing
C19_Witness ==
  \E i \in Inst :
    /\ conf.script = "ser" /\ run[i].done /\ ~run[i].failed
    /\ \E a, b, c \in PendingAtLoad(run[i].loaded) :
         /\ HasResult(disk[run[i].file], a)
         /\ ~HasResult(disk[run[i].file], b)
         /\ Recorded(run[i].loaded[b[1]][b[2]], {RecursionError})
         /\ ~HasResult(disk[run[i].file], c)
         /\ Recorded(run[i].loaded[c[1]][c[2]], {"No iframe found (None result)"})

\* C20: scenario C of ser.py.  With a collaborator that always fails, when
\* process_file has returned every episode that was pending at load has a
\* null result in the file and a record in the failure log, the instance's
\* error count has grown by the number of pending episodes, and the file
\* is counted among the completed files all the same
C20_AlwaysFailing ==
  \A i \in Inst :
    (conf.script = "ser" /\ conf.outcomes = {Null} /\ run[i].done /\ ~run[i].failed) =>
      LET f == run[i].file
      IN /\ \A id \in PendingAtLoad(run[i].loaded) :
              /\ ~HasResult(disk[f], id)
              /\ Recorded(run[i].loaded[id[1]][id[2]], FailureShapes)
         /\ Cardinality(PendingAtLoad(run[i].loaded)) = run[i].P
         /\ run[i].errors = run[i].P
         /\ counts[i].error_count = AddSat(run[i].err0, run[i].P)
         /\ counts[i].processed_count = 0
         /\ f \in gp.completed_files
         /\ Cardinality(gp.completed_files) = Cardinality(run[i].completed0 \cup {f})

\* process_file has returned from a file of two or more pending episodes
\* that was not counted before: the error count went from 0 to the number
\* pending and the completed-file count up by one
C20_Witness ==
  \E i \in Inst :
    /\ conf.script = "ser" /\ conf.outcomes = {Null} /\ run[i].done /\ ~run[i].failed
    /\ run[i].P = MaxCount /\ run[i].err0 = 0
    /\ counts[i].error_count = run[i].P
    /\ run[i].file \notin run[i].completed0
    /\ Cardinality(gp.completed_files) = Cardinality(run[i].completed0) + 1
    /\ \E r \in failures : r.reason = RecursionError

\* the waves dispatched so far, one after the other
RECURSIVE Concat(_)
Concat(ws) == IF ws = <<>> THEN <<>> ELSE Head(ws) \o Concat(Tail(ws))

\* position x of a catalog comes before position y: units in order,
\* sub-items in order within a unit
Before(x, y) == x[1] < y[1] \/ (x[1] = y[1] /\ x[2] < y[2])

\* the sizes of the waves
Sizes(ws) == [n \in 1..Len(ws) |-> Len(ws[n])]

\* C21: wave partition.  The waves of a run of process_file are consecutive
\* pieces of the pending list in catalog order: the waves dispatched so far
\* hold every pending episode at most once, in catalog order, each wave but
\* the last dispatched with W entries; at the return every pending episode
\* is in exactly one wave, there are ceil(P/W) waves and the last one has
\* P mod W entries, or W if W divides P
C21_WavePartition ==
  \A i \in Inst :
    LET ws == run[i].waves
        all == Concat(ws)
        P == run[i].P
        W == run[i].W
        todo == PendingAtLoad(run[i].loaded)
    IN (run[i].file # NoFile /\ ~run[i].failed) =>
         /\ \A n \in 1..Len(all) : all[n] \in todo
         /\ \A m, n \in 1..Len(all) : m < n => Before(all[m], all[n])
         /\ \A n \in 1..(Len(ws) - 1) : Len(ws[n]) = W
         /\ \A n \in 1..Len(ws) : Len(ws[n]) \in 1..W
         /\ Len(ws) = run[i].wave
         /\ pc[i] = "WAVE" => [k \in 1..Len(tasks[i]) |-> tasks[i][k].ep] = ws[Len(ws)]
         /\ run[i].done =>
              /\ {all[n] : n \in 1..Len(all)} = todo
              /\ Len(all) = P /\ Cardinality(todo) = P
              /\ Len(ws) = Ceil(P, W)
              /\ P > 0 => Len(ws[Len(ws)]) = (IF P % W = 0 THEN W ELSE P % W)

\* v.py has returned from a file of 7 pending episodes processed with 3
\* tabs: the waves were of 3, 3 and 1
C21_Witness ==
  \E i \in Inst :
    /\ run[i].done /\ ~run[i].failed
    /\ run[i].P = 7 /\ run[i].W = 3
    /\ Sizes(run[i].waves) = <<3, 3, 1>>

\* C22: idle double-check.  An instance goes to TERMINATED only from the
\* idle wait and only by a rescan that finds nothing, and it is in the idle
\* wait only after a scan that found nothing; a rescan that finds nothing
\* does terminate it, and a rescan that finds a file locks one of the files
\* found and enters process_file on it
C22_IdleDoubleCheck ==
  [][\A i \in Inst :
       LET avail == get_available_files(marker)
       IN /\ (pc[i] # "TERMINATED" /\ pc'[i] = "TERMINATED") =>
               pc[i] = "IDLE_WAIT" /\ avail = {} /\ scan'[i].available_files = {}
          /\ (pc[i] # "IDLE_WAIT" /\ pc'[i] = "IDLE_WAIT") =>
               pc[i] = "SCANNING" /\ avail = {} /\ scan'[i].available_files = {}
          /\ (pc[i] = "SCANNING" /\ pc'[i] # "SCANNING" /\ avail = {}) =>
               pc'[i] = "IDLE_WAIT"
          /\ (pc[i] = "IDLE_WAIT" /\ pc'[i] # "IDLE_WAIT") =>
               IF avail = {}
               THEN pc'[i] = "TERMINATED"
               ELSE /\ pc'[i] = "LOADING"
                    /\ cur'[i] \in avail
                    /\ marker'[cur'[i]] = [holder |-> i, age |-> 0]]_vars

\* one instance has terminated after two scans that found nothing while
\* the other, whose rescan after the idle wait found the file, is in
\* process_file
C22_Witness ==
  \E i, j \in Inst :
    /\ pc[i] = "TERMINATED" /\ scan[i].second /\ scan[i].available_files = {}
    /\ InFile(j) /\ scan[j].second /\ cur[j] \in scan[j].available_files

\* the files with pending episodes that another instance holds locked
LockedPending(i) ==
  {f \in Files : /\ disk[f] # Corrupt
                 /\ PendingOf(disk[f]) # <<>>
                 /\ \E j \in Inst \ {i} : cur[j] = f /\ marker[f] # NoMarker
                                           /\ marker[f].holder = j}

\* C23: termination only on true exhaustion.  No instance goes to
\* TERMINATED while a file that still has pending episodes is merely locked
\* by another instance
C23_TerminationOnlyOnExhaustion ==
  [][\A i \in Inst :
       (pc[i] # "TERMINATED" /\ pc'[i] = "TERMINATED") => LockedPending(i) = {}]_vars

NoMarkers == \A f \in Files : marker[f] = NoMarker

\* every instance has brought up every browser and tab it was asked for
PoolsUp ==
  \A i \in Inst :
    /\ PoolLive(i)
    /\ Cardinality(made[i]) = conf.max_browsers * conf.max_tabs_per_browser

C25_CompletionDetection ==
  /\ [][(monitor = "WATCHING" /\ monitor' = "DONE") =>
          /\ get_status(gp).remaining = 0
          /\ \A i \in Inst : progress[i].file_name = NoFile
          /\ \A i \in Inst : ~InFile(i)]_vars
  /\ []((/\ monitor = "WATCHING"
         /\ get_status(gp).remaining = 0
         /\ \A i \in Inst : progress[i].file_name = NoFile) => ENABLED MonitorTick)

\* instance j is inside process_file on file f under its own marker
Holds(j, f) == cur[j] = f /\ marker[f] # NoMarker /\ marker[f].holder = j

\* C26: a held lock is not reclaimed from a live holder.  While instance j
\* is processing a file under its marker and has not unlocked it, no step
\* of another instance removes or replaces the marker, and no scan of
\* another instance reports the file available, however old the marker is
C26_NoReclaimFromLiveHolder ==
  [][\A j \in Inst : \A f \in Files :
       (Holds(j, f) /\ cur'[j] = f) =>
         /\ marker'[f] # NoMarker /\ marker'[f].holder = j
         /\ \A i \in Inst \ {j} :
              scan'[i] # scan[i] => f \notin scan'[i].available_files]_vars

\* C27: release removes only the caller's own lock.  When the unlock_file
\* of an instance that leaves process_file removes a marker, the marker is
\* one that this instance wrote, never one that another instance wrote
\* after reclaiming the file
C27_ReleaseOnlyOwnLock ==
  [][\A i \in Inst : \A f \in Files :
       (Returns(i, f) /\ marker[f] # NoMarker /\ marker'[f] = NoMarker) =>
         marker[f].holder = i]_vars

\* C28: frame of a run of ser.py's process_file.  The file it has written
\* differs from the file it loaded in nothing but the results of the
\* episodes that were pending at load: every anime has the episodes it
\* had, in their order and with their urls, and every episode that was done
\* has the result it had, two episodes with one url or with none included
C28_FrameOfRun ==
  \A i \in Inst :
    (conf.script = "ser" /\ run[i].done /\ ~run[i].failed) =>
      LET old == run[i].loaded
          new == disk[run[i].file]
      IN /\ Len(new) = Len(old)
         /\ \A a \in 1..Len(old) : Len(new[a]) = Len(old[a])
         /\ Positions(new) = Positions(old)
         /\ \A id \in Positions(old) :
              /\ new[id[1]][id[2]].url = old[id[1]][id[2]].url
              /\ HasResult(old, id) =>
                   new[id[1]][id[2]].iframe_url = old[id[1]][id[2]].iframe_url

\* C29: the work file survives a unit failure (allanime.py).  After the
\* processing of an anime has raised, the data in memory is still the
\* loaded catalog, and every save, periodic or final, writes the catalog
\* with all its anime entries, the processed ones updated and the failed
\* one unchanged, never any other data
C29_WorkFileSurvivesFailure ==
  /\ \A i \in Workers :
       updater.worker[i].pc \in {"EXTRACTING", "PAUSE", "CLOSING"} =>
         updater.worker[i].data.keys = "catalog"
  /\ \A f \in WorkFiles :
       LET doc == updater.files[f]
       IN /\ doc.keys = "catalog"
          /\ Len(doc.anime) >= 1
          /\ \A a \in 1..Len(doc.anime) :
               /\ doc.anime[a].id = AnimeId(f, a)
               /\ (/\ \E i \in Workers : doc.anime[a].id \in updater.worker[i].raised
                   /\ ~is_anime_processed(updater, doc.anime[a].id)) =>
                    doc.anime[a].episodes = "old"

\* the tab capacity the instances are configured with
Capacity == conf.max_browsers * conf.max_tabs_per_browser

\* C30: the wave size equals the pool capacity and is fixed.  In every run
\* of process_file the wave size is max_browsers * max_tabs_per_browser,
\* the same for every wave, and no wave holds more episodes than the pool
\* has tabs
C30_WaveSizeIsCapacity ==
  \A i \in Inst :
    (run[i].file # NoFile /\ ~run[i].failed) =>
      /\ run[i].W = Capacity
      /\ \A n \in 1..Len(run[i].waves) : Len(run[i].waves[n]) <= Capacity
      /\ pc[i] = "WAVE" => Len(tasks[i]) <= Capacity

\* the episodes of the run of instance i whose extraction has returned with
\* nothing in a wave that is complete
FailedInRun(i) ==
  {id \in run[i].called :
     /\ id \notin InBatch(tasks[i])
     /\ \A w \in 1..run[i].wave : <<id, w>> \notin run[i].resolved}

\* C31: no inline retry.  Within one run of process_file the extraction is
\* called at most once for each pending episode and for no other; an episode
\* whose extraction failed is in no later wave of the run and stays null in
\* memory for the rest of it; it is extracted again only by a later call of
\* process_file that loads the file anew
C31_NoInlineRetry ==
  \A i \in Inst :
    /\ run[i].ncalls = Cardinality(run[i].called)
    /\ run[i].called \subseteq PendingAtLoad(run[i].loaded)
    /\ \A m, n \in 1..Len(Concat(run[i].waves)) :
         m # n => Concat(run[i].waves)[m] # Concat(run[i].waves)[n]
    /\ (InFile(i) /\ pc[i] \in {"WAVE", "SAVING"}) =>
         \A id \in FailedInRun(i) : data[i].objs[id].iframe_url = Null

\* a later pass over the file: the pass before it left an error, this one
\* has had a failure in its first wave and has its second wave in flight
C31_Witness ==
  \E i \in Inst :
    /\ run[i].err0 > 0
    /\ pc[i] = "WAVE" /\ run[i].wave = 2
    /\ FailedInRun(i) # {}
    /\ \E k \in 1..Len(tasks[i]) : tasks[i][k].st = "extracting"

\* the tabs init_browsers created in browser b of instance i
TabsOf(i, b) == {t \in made[i] : t[1] = b}

\* no tab of instance i is checked out and the free list of every browser
\* holds every tab of that browser, once
PoolFull(i) ==
  /\ CheckedOut(i) = {}
  /\ \A b \in 1..Len(browsers[i]) :
       /\ Len(browsers[i][b].tabs) = Cardinality(TabsOf(i, b))
       /\ {browsers[i][b].tabs[n] : n \in 1..Len(browsers[i][b].tabs)} = TabsOf(i, b)

\* C32: the pool is full at every wave barrier.  When gather has returned
\* (every task of the wave is done), while the checkpoint is written and
\* when the next wave has been created and none of its tasks has run, no tab
\* is checked out and every browser's free list holds all its tabs, whether
\* the tasks ended with a result, with None, or without a url
C32_PoolFullAtBarrier ==
  \A i \in Inst :
    (/\ PoolLive(i)
     /\ \/ pc[i] = "SAVING"
        \/ pc[i] = "WAVE" /\ (AllDone(tasks[i]) \/ AllCreated(tasks[i])))
      => PoolFull(i)

\* v.py writes the checkpoint of a wave of two tasks that have both held a
\* tab, one for an episode without url and one whose extraction gave a url
C32_Witness ==
  \E i \in Inst :
    /\ conf.script = "v"
    /\ pc[i] = "SAVING"
    /\ run[i].loaded = NoUrlCat
    /\ run[i].tabs = 2
    /\ run[i].resolved # {}
    /\ Cardinality(made[i]) = 2

\* the successful extractions all instances have counted
RECURSIVE TotalProcessed(_, _)
TotalProcessed(c, S) ==
  IF S = {} THEN 0
  ELSE LET i == CHOOSE x \in S : TRUE
       IN c[i].processed_count + TotalProcessed(c, S \ {i})

\* instance i enters process_file on file f in this step
Starts(i, f) == cur[i] = NoFile /\ cur'[i] = f

\* the in-flight map but for the entry of file f
Others(g, f) == [h \in DOMAIN g.currently_processing \ {f} |-> g.currently_processing[h]]

\* C33: no lost counter updates in ser.py's GlobalProgress.  Under every
\* interleaving of the tasks of all instances, completed_episodes grows in
\* every step by the successful extractions that the instances count in that
\* step (up to MaxCount, where the counters of the model stop), a batch
\* that returns adds its successes, an instance that enters
\* process_file is entered in the in-flight map, and an instance that
\* leaves it has its file added to the completed files and taken from the
\* map; nothing else changes the three
C33_NoLostUpdates ==
  [][/\ gp'.completed_episodes =
         AddSat(gp.completed_episodes,
                TotalProcessed(counts', Inst) - TotalProcessed(counts, Inst))
     /\ \A i \in Inst :
          (pc[i] = "WAVE" /\ pc'[i] # "WAVE") =>
            gp'.completed_episodes =
              AddSat(gp.completed_episodes, Cardinality(Succeeded(tasks[i])))
     /\ \A i \in Inst : \A f \in Files :
          /\ Starts(i, f) =>
               /\ gp'.currently_processing[f] = i
               /\ Others(gp', f) = Others(gp, f)
               /\ gp'.completed_files = gp.completed_files
          /\ Returns(i, f) =>
               /\ gp'.currently_processing[f] = 0
               /\ Others(gp', f) = Others(gp, f)
               /\ gp'.completed_files = gp.completed_files \cup {f}
     /\ (\A i \in Inst : \A f \in Files : ~Starts(i, f) /\ ~Returns(i, f)) =>
          /\ gp'.currently_processing = gp.currently_processing
          /\ gp'.completed_files = gp.completed_files]_vars

\* two instances are each about to write a file in which they have
\* extracted an episode: both increments are counted and both files are in
\* the in-flight map
C33_Witness ==
  \E i, j \in Inst :
    /\ i # j
    /\ pc[i] = "SAVING" /\ pc[j] = "SAVING"
    /\ counts[i].processed_count = 1 /\ counts[j].processed_count = 1
    /\ gp.completed_episodes = 2
    /\ gp.currently_processing[cur[i]] = i /\ gp.currently_processing[cur[j]] = j
    /\ gp.completed_files = {}

\* the last call of process_file of some instance on file f ended in the
\* except clause, which marked the file completed
CompletedByError(f) ==
  /\ f \in gp.completed_files
  /\ \E j \in Inst : run[j].failed /\ run[j].file = f

\* C34: completed-by-error stops retries (ser.py).  Once process_file has
\* failed on a file with an exception and has marked it completed, no
\* instance's run_instance selects that file again
C34_CompletedByErrorNotRetried ==
  [][\A i \in Inst : \A f \in Files :
       (conf.script = "ser" /\ CompletedByError(f)) => ~Starts(i, f)]_vars

\* C35: remaining is never negative (ser.py).  In every reachable state
\* the 'remaining' of get_status, total_files less the completed files less
\* the files in flight, is at least 0, also while a file of the completed
\* set is processed again
C35_RemainingNotNegative ==
  conf.script = "ser" => get_status(gp).remaining >= 0

\* display_dashboard: sum(inst.files_processed_count for inst in instances)
RECURSIVE files_processed_total(_, _)
files_processed_total(c, S) ==
  IF S = {} THEN 0
  ELSE LET i == CHOOSE x \in S : TRUE
       IN c[i].files_processed_count + files_processed_total(c, S \ {i})

\* C36: the files-processed count is bounded (v.py).  In every reachable
\* state the sum of files_processed_count over all instances is at most
\* the number of work-item files the run started with: a file is counted as
\* processed at most once
C36_FilesProcessedBounded ==
  conf.script = "v" => files_processed_total(counts, Inst) <= Cardinality(Files)

\* instance i is inside is_file_being_processed, past the existence check
\* of a marker that another instance has removed since
MarkerGone(i) ==
  /\ pc[i] \in {"SCAN_STAT", "SCAN_REMOVE"}
  /\ marker[scan[i].at] = NoMarker

\* C39: the scan survives a concurrent marker removal (v.py).  When another
\* instance removes a marker between the existence check and the age check
\* or the removal inside is_file_being_processed, the scan goes on to its
\* result and run_instance does not leave its loop
C39_ScanSurvivesRemoval ==
  [][\A i \in Inst :
       (conf.script = "v" /\ MarkerGone(i) /\ pc'[i] # pc[i]) => pc'[i] = "SCAN"]_vars

\* the episodes of the waves of the run of instance i that are complete
Dispatched(i) ==
  LET ws == run[i].waves
      over == IF pc[i] = "WAVE" THEN SubSeq(ws, 1, Len(ws) - 1) ELSE ws
  IN {Concat(over)[n] : n \in 1..Len(Concat(over))}

\* C40: outcome counting.  At every wave barrier, and all through the
\* waves, processed_count has grown since the start of the run by the
\* episodes of the completed waves that have a result and error_count by
\* those that have none, so every dispatched episode is counted once and
\* processed_count + error_count has grown by the number dispatched
C40_OutcomeCounting ==
  \A i \in Inst :
    (InFile(i) /\ pc[i] \in {"WAVE", "SAVING"} /\ ~run[i].failed) =>
      LET D == Dispatched(i)
          ok == {id \in D : data[i].objs[id].iframe_url # Null}
      IN /\ counts[i].processed_count = AddSat(run[i].proc0, Cardinality(ok))
         /\ counts[i].error_count = AddSat(run[i].err0, Cardinality(D \ ok))
         /\ Cardinality(run[i].resolved) = Cardinality(ok)
         /\ run[i].errors = Cardinality(D \ ok)

\* the barrier of the first wave of a fresh instance, a wave of two
\* episodes of which one got a result: one is counted as processed, one as
\* error
C40_Witness ==
  \E i \in Inst :
    /\ pc[i] = "SAVING"
    /\ run[i].proc0 = 0 /\ run[i].err0 = 0
    /\ Cardinality(Dispatched(i)) = 2
    /\ counts[i].processed_count = 1 /\ counts[i].error_count = 1

\* worker i writes the coordination data in this step on behalf of file f
WritesFor(i, f) ==
  /\ updater'.coordination # updater.coordination
  /\ updater.worker[i].filename = f \/ updater'.worker[i].filename = f
  /\ updater'.worker[i] # updater.worker[i]

\* C37: atomic coordination updates (allanime.py).  No update of the
\* coordination data is lost by the read-modify-write around
\* update_coordination_data: an entry of locked_files goes only by a write
\* of a worker for that very file, no anime leaves processed_anime or
\* failed_anime, and total_processed never falls; so after two instances
\* have locked different files or marked different anime, both updates
\* are there
C37_AtomicCoordinationUpdates ==
  [][/\ \A q \in updater.coordination.locked_files :
          q \in updater'.coordination.locked_files
            \/ \E i \in Workers : WritesFor(i, q[1])
     /\ updater.coordination.processed_anime \subseteq updater'.coordination.processed_anime
     /\ updater.coordination.failed_anime \subseteq updater'.coordination.failed_anime
     /\ updater'.coordination.total_processed >= updater.coordination.total_processed]_vars

\* worker i is inside process_file on file f
InWork(i, f) == updater.worker[i].filename = f /\ f # NoFile

\* C38: mutual exclusion in allanime.py, the workers being tasks of one
\* process.  No file is processed by two instances at the same time: a
\* worker that selects a file reported by get_available_work has it locked
\* under its name before any other worker can scan, and the file is not
\* reported again while it is inside process_file
C38_UpdaterMutualExclusion ==
  \A i \in Workers : \A f \in WorkFiles :
    InWork(i, f) =>
      /\ \A j \in Workers \ {i} : ~InWork(j, f)
      /\ f \notin get_available_work(updater)
      /\ updater.worker[i].pc # "IDLE" => <<f, i>> \in updater.coordination.locked_files

\* two workers are extracting, each in a file of its own that is locked
\* under its name
C38_Witness ==
  \E i, j \in Workers :
    /\ i # j
    /\ updater.worker[i].pc = "EXTRACTING" /\ updater.worker[j].pc = "EXTRACTING"
    /\ updater.worker[i].filename # updater.worker[j].filename
    /\ updater.coordination.locked_files =
         {<<updater.worker[i].filename, i>>, <<updater.worker[j].filename, j>>}

====
